---- MODULE Spec2Model ----
(***************************************************************************)
(* Model of the log rotation of package trace (trace/rotate.go) and of     *)
(* the file scanner that drives it (trace/writer.go).                      *)
(*                                                                         *)
(* One RotateWriter instance works on one directory.  File names are       *)
(* sequences of one-character strings, so that backupName and timeFromName *)
(* are modelled by what they do to the characters.  The content of a file  *)
(* is a sequence of chunks <<id, n>>: n bytes of the id-th Write call.     *)
(***************************************************************************)
EXTENDS Integers, Sequences, FiniteSets, TLC

(***************************************************************************)
(* Bounds of the model.                                                    *)
(***************************************************************************)
\* megabyte is a package variable of rotate.go "so tests can mock it out and
\* not need to write megabytes of data"; the model runs with a small unit.
megabyte == 1
\* Write, Rotate, Close and OpenExistingOrNew calls made in one behaviour.
MaxCalls == 2
\* Clock instants that pass in one behaviour (three instants an hour).
MaxClock == 2
\* Changes made to the directory by other programs in one behaviour.
MaxExternal == 1
\* Calls made in one behaviour of SpecBurst (all within one clock hour).
MaxBurst == 103
\* Calls made in one behaviour of SpecSignal.
MaxRounds == 4
\* Close calls made on the Writer in one behaviour of SpecClose.
MaxCloses == 3
\* Buffers the queue of an asyncWriter holds (config.MaxQueueSize).
MaxQueue == 1

\* The instants the clock of the scanner runs through (three to an hour).
MaxTicks == 3
\* The hour, counted from 1970-01-01 00:00 UTC, in which a behaviour starts
\* (315599 is 2006-01-01 23:00 UTC).
StartHour == 315599
\* Offset of the local time zone from UTC, in hours.
ZoneOffset == 8

(***************************************************************************)
(* Program constants.                                                      *)
(***************************************************************************)
defaultMaxSize == 1024
\* for idx := 1; idx < 100; idx++   (backupName)
backupIdxLimit == 100
backupTimeFormat == <<"2", "0", "0", "6", "0", "1", "0", "2", "1", "5">>
compressSuffix == <<".", "g", "z">>
\* RotateWriter.Filename: the active file "a.l" (prefix "a", extension ".l").
Filename == <<"a", ".", "l">>

VARIABLES
    cfg,        \* RotateConfig and LocalTime of the instance
    file,       \* l.file: descriptor of the open handle, 0 when nil
    size,       \* l.size
    INode,      \* l.INode
    millCh,     \* number of signals pending in l.millCh (capacity 1)
    millStarted,\* l.startMill has run: the millRun goroutine exists
    fs,         \* the directory: file name -> [ino, data, gz, mtime]
    fds,        \* descriptors opened by the instance: <<[ino, open, adopted,
                \* through]>>; adopted and through are ghosts: the size taken
                \* over at the open and the bytes written through it since
    nextIno,    \* next unused inode number
    otherSize,  \* bytes of the files of other streams in the directory
    now,        \* the clock, in instants since the start of StartHour
    calls,      \* ghost: number of calls made so far
    externals,  \* ghost: number of external changes so far
    faulty,     \* ghost: a system call has failed (at most one step meets a failure)
    ticked,     \* ghost: the scanner has ticked at this instant
    journal,    \* ghost: chunks accepted by the files, in call order
    rotated,    \* ghost: backup names in the order the renames made them
    last,       \* ghost: the step taken last and what it did
    mu,         \* l.mu: the thread that holds it, "" when it is free
    pc,         \* where each thread is in the operation it runs ("m": the
                \* millRun goroutine)
    loc,        \* the local variables of each thread
    wr          \* the Writer of writer.go around the instance: its teardown
                \* channels, its goroutines and its queue

vars == <<cfg, file, size, INode, millCh, millStarted, fs, fds, nextIno,
          otherSize, now, calls, externals, faulty, ticked, journal, rotated, last,
          mu, pc, loc, wr>>

(***************************************************************************)
(* Characters and strings.                                                 *)
(***************************************************************************)
DigitChars == <<"0", "1", "2", "3", "4", "5", "6", "7", "8", "9">>

IsDigit(c) == \E i \in 1..10 : DigitChars[i] = c

DigitVal(c) == (CHOOSE i \in 1..10 : DigitChars[i] = c) - 1

\* Byte value of the characters that occur in file names.
Ord(c) ==
    CASE c = "." -> 46
      [] IsDigit(c) -> 48 + DigitVal(c)
      [] c = "a" -> 97
      [] c = "g" -> 103
      [] c = "l" -> 108
      [] c = "w" -> 119
      [] c = "z" -> 122
      [] OTHER -> 0

\* a < b as Go compares strings (byte-wise, lexicographic).
RECURSIVE StrLess(_, _)
StrLess(a, b) ==
    IF b = <<>> THEN FALSE
    ELSE IF a = <<>> THEN TRUE
    ELSE IF Ord(Head(a)) # Ord(Head(b)) THEN Ord(Head(a)) < Ord(Head(b))
    ELSE StrLess(Tail(a), Tail(b))

HasPrefix(s, p) == Len(s) >= Len(p) /\ SubSeq(s, 1, Len(p)) = p

HasSuffix(s, x) == Len(s) >= Len(x) /\ SubSeq(s, Len(s) - Len(x) + 1, Len(s)) = x

TrimPrefix(s, p) == IF HasPrefix(s, p) THEN SubSeq(s, Len(p) + 1, Len(s)) ELSE s

TrimSuffix(s, x) == IF HasSuffix(s, x) THEN SubSeq(s, 1, Len(s) - Len(x)) ELSE s

\* fmt's %d of a natural number.
RECURSIVE Itoa(_)
Itoa(n) == IF n < 10 THEN <<DigitChars[n + 1]>>
           ELSE Itoa(n \div 10) \o <<DigitChars[(n % 10) + 1]>>

\* n printed with exactly w digits (n < 10^w).
RECURSIVE Pad(_, _)
Pad(n, w) == IF w = 0 THEN <<>> ELSE Pad(n \div 10, w - 1) \o <<DigitChars[(n % 10) + 1]>>

\* Value of a sequence of digits.
RECURSIVE Atoi(_)
Atoi(s) == IF s = <<>> THEN 0 ELSE 10 * Atoi(SubSeq(s, 1, Len(s) - 1)) + DigitVal(s[Len(s)])

\* filepath.Ext: the suffix beginning at the last dot, empty without a dot.
Ext(name) ==
    LET dots == {i \in 1..Len(name) : name[i] = "."}
    IN  IF dots = {} THEN <<>>
        ELSE LET i == CHOOSE d \in dots : \A e \in dots : e <= d
             IN  SubSeq(name, i, Len(name))

prefixAndExt == [prefix |-> SubSeq(Filename, 1, Len(Filename) - Len(Ext(Filename))),
                 ext |-> Ext(Filename)]

(***************************************************************************)
(* Time.  A time is a number of hours since 1970-01-01 00:00 UTC plus the  *)
(* instant within the hour; the calendar is the proleptic Gregorian one.   *)
(***************************************************************************)
IsLeap(y) == (y % 4 = 0 /\ y % 100 # 0) \/ y % 400 = 0

DaysIn(y, m) == IF m = 2 THEN (IF IsLeap(y) THEN 29 ELSE 28)
                ELSE IF m \in {4, 6, 9, 11} THEN 30 ELSE 31

\* Days from 1970-01-01 to the civil date y-m-d.
DaysFromCivil(y, m, d) ==
    LET yy  == IF m <= 2 THEN y - 1 ELSE y
        era == yy \div 400
        yoe == yy - era * 400
        mp  == IF m > 2 THEN m - 3 ELSE m + 9
        doy == (153 * mp + 2) \div 5 + d - 1
        doe == yoe * 365 + yoe \div 4 - yoe \div 100 + doy
    IN  era * 146097 + doe - 719468

\* The civil date of the day z days after 1970-01-01.
\* The steps are: the year of the era (yoe) from the day of the era (doe),
\* the day of the year (doy, counted from March 1st), the month (mp, March
\* being 0), and the date.
CivilFromMp(era, yoe, doy, mp) ==
    [y |-> yoe + era * 400 + (IF mp >= 10 THEN 1 ELSE 0),
     m |-> IF mp < 10 THEN mp + 3 ELSE mp - 9,
     d |-> doy - (153 * mp + 2) \div 5 + 1]

CivilFromDoy(era, yoe, doy) == CivilFromMp(era, yoe, doy, (5 * doy + 2) \div 153)

CivilFromYoe(era, doe, yoe) ==
    CivilFromDoy(era, yoe, doe - (365 * yoe + yoe \div 4 - yoe \div 100))

CivilFromDoe(era, doe) ==
    CivilFromYoe(era, doe,
                 (doe - doe \div 1460 + doe \div 36524 - doe \div 146096) \div 365)

CivilFromDays(z) == CivilFromDoe((z + 719468) \div 146097, (z + 719468) % 146097)

\* The date c and the hour of the day hh as YYYYMMDDHH.
FormatCivil(c, hh) == Pad(c.y, 4) \o Pad(c.m, 2) \o Pad(c.d, 2) \o Pad(hh, 2)

\* t.Format(backupTimeFormat) of the hour h.
FormatHour(h) == FormatCivil(CivilFromDays(h \div 24), h % 24)

\* time.Parse(backupTimeFormat, ts): the hour named by ts, read as UTC.
ParseHour(ts) ==
    IF Len(ts) # Len(backupTimeFormat) \/ \E i \in 1..Len(ts) : ~IsDigit(ts[i])
    THEN [ok |-> FALSE, hour |-> 0]
    ELSE LET y == Atoi(SubSeq(ts, 1, 4))
             m == Atoi(SubSeq(ts, 5, 6))
             d == Atoi(SubSeq(ts, 7, 8))
             h == Atoi(SubSeq(ts, 9, 10))
         IN  IF m < 1 \/ m > 12 \/ d < 1 \/ d > DaysIn(y, m) \/ h > 23
             THEN [ok |-> FALSE, hour |-> 0]
             ELSE [ok |-> TRUE, hour |-> DaysFromCivil(y, m, d) * 24 + h]

\* The clock: instant 0 of an hour is minute 0 second 0, instant 1 is minute 0
\* second 1, instant 2 is minute 30 second 0.
HourOf(t)   == StartHour + t \div 3
MinuteOf(t) == IF t % 3 = 2 THEN 30 ELSE 0
SecondOf(t) == IF t % 3 = 1 THEN 1 ELSE 0

(***************************************************************************)
(* The directory and the instance.  The operators below take and return a  *)
(* record st of everything a call can change:                              *)
(*   file, size, INode, millCh, millStarted   the RotateWriter             *)
(*   fs, fds, nextIno                         the file system              *)
(*   F    the system call that fails during this call ("none": none)       *)
(*   ev   what the call has done so far, for the properties                *)
(***************************************************************************)
Faults == {"none", "mkdir", "stat", "rename", "openAppend", "openCreate",
           "write", "write0", "close"}

Event(e, name, flag, num) == [e |-> e, name |-> name, flag |-> flag, num |-> num]

Note(st, e, name, flag, num) == [st EXCEPT !.ev = Append(@, Event(e, name, flag, num))]

Ok(st)   == [st |-> st, err |-> FALSE]
Fail(st) == [st |-> st, err |-> TRUE]

RECURSIVE SumLen(_)
SumLen(data) == IF data = <<>> THEN 0 ELSE Head(data)[2] + SumLen(Tail(data))

\* Bytes a gzip stream of n bytes takes in the model.
GzLen(n) == 1 + n \div 2

\* A gzip stream as the content of a file: the header <<-1, 0>>, the chunks
\* of the input, and, once the gzip.Writer is closed, the trailer <<-2, n>>
\* that holds the length n of the input.
IsChunk(c) == c[1] >= 0

\* A stream that is never finished by gz.Close().
gzipUnclosed(data, closed) == <<<<-1, 0>>>> \o data

\* gzip.NewWriter(gzf), io.Copy(gz, f) and, when closed, gz.Close().
gzipStream(data, closed) ==
    <<<<-1, 0>>>> \o data \o (IF closed THEN <<<<-2, SumLen(data)>>>> ELSE <<>>)

\* info.Size()
FileSize(f) == IF f.gz THEN GzLen(SumLen(SelectSeq(f.data, IsChunk))) ELSE SumLen(f.data)

Exists(st, name) == name \in DOMAIN st.fs

RemoveName(fsys, name) == [n \in DOMAIN fsys \ {name} |-> fsys[n]]

PutName(fsys, name, f) == [n \in DOMAIN fsys \cup {name} |-> IF n = name THEN f ELSE fsys[n]]

\* os.Rename: newname is replaced when it exists.
Rename(fsys, old, new) == PutName(RemoveName(fsys, old), new, fsys[old])

\* max returns the maximum size in bytes of log files before rolling.
max == IF cfg.MaxSize = 0 THEN defaultMaxSize * megabyte ELSE cfg.MaxSize * megabyte

maxBackupSize == cfg.MaxBackupSize * megabyte

\* The hour currentTime() shows in backupName: local time or UTC.
NameHour == IF cfg.LocalTime THEN HourOf(now) + ZoneOffset ELSE HourOf(now)

\* The candidate backupName holds after idx - 1 turns of its loop: the first
\* candidate, then the first candidate followed by the number of the turn.
Candidate(stem, idx) == IF idx = 1 THEN stem ELSE stem \o Itoa(idx - 1)

\* A search that joins the number to the first candidate with a dot.
backupSearchDotted(fsys, stem) ==
    LET Cand(idx) == IF idx = 1 THEN stem ELSE stem \o <<".">> \o Itoa(idx - 1)
        stops == {idx \in 1..(backupIdxLimit - 1) : Cand(idx) \notin DOMAIN fsys}
    IN  IF stops = {}
        THEN [name |-> Cand(backupIdxLimit), checks |-> backupIdxLimit - 1]
        ELSE LET idx == CHOOSE i \in stops : \A j \in stops : i <= j
             IN  [name |-> Cand(idx), checks |-> idx]

\* The loop of backupName, for idx := 1; idx < 100; idx++: the turn idx
\* stats the candidate it holds and breaks when there is no such file, else
\* it goes on with the next candidate; the candidate the last turn leaves
\* is returned without a stat.  The result is the name and the number of
\* os_Stat calls made.
backupSearch(fsys, stem) ==
    LET stops == {idx \in 1..(backupIdxLimit - 1) : Candidate(stem, idx) \notin DOMAIN fsys}
    IN  IF stops = {}
        THEN [name |-> Candidate(stem, backupIdxLimit), checks |-> backupIdxLimit - 1]
        ELSE LET idx == CHOOSE i \in stops : \A j \in stops : i <= j
             IN  [name |-> Candidate(stem, idx), checks |-> idx]

\* A first candidate that always takes the hour of the clock.
backupStemOfHour ==
    LET pe == prefixAndExt
    IN  pe.prefix \o pe.ext \o <<".">> \o FormatHour(NameHour)

\* The first candidate of backupName: prefix, ext, a dot and the hour; at
\* minute 0 the hour before.
backupStem ==
    LET pe == prefixAndExt
        t  == IF MinuteOf(now) = 0 THEN NameHour - 1 ELSE NameHour
    IN  pe.prefix \o pe.ext \o <<".">> \o FormatHour(t)

\* backupName(name, local): the name and the number of os_Stat calls made.
backupName(fsys) == backupSearch(fsys, backupStem)

\* A close that leaves the closed file in l.file.
closeKeepsFile(st) ==
    IF st.file = 0 THEN Ok(st)
    ELSE Ok([Note(st, "close", <<>>, FALSE, st.file) EXCEPT !.fds[st.file].open = FALSE])

\* close closes the file if it is open.
close(st) ==
    IF st.file = 0 THEN Ok(st)
    ELSE LET s1 == [Note(st, "close", <<>>, FALSE, st.file)
                      EXCEPT !.fds[st.file].open = FALSE, !.file = 0]
         IN  IF st.F = "close" THEN Fail(s1) ELSE Ok(s1)

\* A start of the goroutine that is not guarded by the sync.Once.
startMillAgain(st) == [Note(st, "startMill", <<>>, FALSE, 0) EXCEPT !.millStarted = TRUE]

\* l.startMill.Do(...): the first call makes l.millCh and starts the millRun
\* goroutine, the later ones do nothing.
startMill(st) ==
    IF st.millStarted THEN st
    ELSE [Note(st, "startMill", <<>>, FALSE, 0) EXCEPT !.millStarted = TRUE]

\* A send that queues the signal behind the pending one.
sendQueued(st) == [Note(st, "signal", <<>>, TRUE, 0) EXCEPT !.millCh = @ + 1]

\* select { case l.millCh <- true: default: }: the signal is sent when the
\* channel (capacity 1) is empty, and dropped when it is full.
trySend(st) ==
    IF st.millCh = 0
    THEN [Note(st, "signal", <<>>, TRUE, 0) EXCEPT !.millCh = 1]
    ELSE Note(st, "signal", <<>>, FALSE, 0)

\* A mill that sends the signal only in the call that starts the goroutine.
millAtStart(st) == IF st.millStarted THEN st ELSE trySend(startMill(st))

\* mill: start the millRun goroutine once, then send without blocking.
mill(st) == trySend(startMill(st))

\* os.OpenFile of the active file: a descriptor on inode ino.
OpenFd(st, ino, adopted) ==
    [st EXCEPT !.fds = Append(@, [ino |-> ino, open |-> TRUE,
                                  adopted |-> adopted, through |-> 0]),
               !.file = Len(st.fds) + 1]

\* An open that leaves l.INode as it was.
keepINode(st) == st

\* The stat after the open that records the identity of the file.
RecordINode(st) ==
    IF st.F # "stat" /\ Exists(st, Filename)
    THEN [st EXCEPT !.INode = st.fs[Filename].ino]
    ELSE st

\* openNew opens a new log file for writing, moving any old log file away.
\* openNew, second half: os.OpenFile(name, O_CREATE|O_WRONLY|O_TRUNC, mode)
\* on inode ino (trunc: the name exists and is truncated), l.file, l.size and
\* l.INode.
createFile(st, trunc, ino) ==
    RecordINode([OpenFd([Note(st, "create", Filename, trunc, ino)
                           EXCEPT !.fs = PutName(st.fs, Filename,
                                      [ino |-> ino, data |-> <<>>, gz |-> FALSE,
                                       mtime |-> now]),
                                  !.nextIno = IF trunc THEN @ ELSE @ + 1],
                        ino, 0)
                   EXCEPT !.size = 0])

openFile(st) ==
    IF st.F = "openCreate" THEN Fail(st)
    ELSE IF Exists(st, Filename)
    THEN Ok(createFile(st, TRUE, st.fs[Filename].ino))
    ELSE Ok(createFile(st, FALSE, st.nextIno))

\* openNew, first half, when os_Stat(name) finds the file: os.Rename to the
\* name bn that backupName returned.
moveAside(st, bn) ==
    IF st.F = "rename"
    THEN Fail(Note(st, "renameFailed", bn.name, FALSE, bn.checks))
    ELSE openFile([Note(st, "rename", bn.name, bn.name \notin DOMAIN st.fs, bn.checks)
                     EXCEPT !.fs = Rename(st.fs, Filename, bn.name)])

\* openNew opens a new log file for writing, moving any old log file away.
openNew(st) ==
    IF st.F = "mkdir" THEN Fail(Note(st, "mkdir", <<>>, FALSE, 0))
    ELSE IF st.F # "stat" /\ Exists(st, Filename)
    THEN moveAside(st, backupName(st.fs))
    ELSE openFile(st)

\* rotate closes the current file, moves it aside, opens a new file with the
\* original name and signals the mill.
\* rotate closes the current file, moves it aside, opens a new file with the
\* original name and signals the mill: signalMill is its end, reached with
\* the result o of openNew, reopen its middle, reached with the result c of
\* close.
\* A rotation that signals the mill whatever openNew returned.
signalAlways(o) == [st |-> mill(o.st), err |-> o.err]

signalMill(o) == IF o.err THEN o ELSE Ok(mill(o.st))

reopen(c) == IF c.err THEN c ELSE signalMill(openNew(c.st))

rotate(st) == reopen(close(Note(st, "rotate", <<>>, FALSE, 0)))

\* os.OpenFile(filename, os.O_APPEND|os.O_WRONLY, 0o644) and l.file = file:
\* a descriptor on the file the name denotes now, info being the os_Stat
\* made before.
openAppend(st, info) ==
    OpenFd(Note(st, "openExisting", Filename, FALSE, info), st.fs[Filename].ino, info)

\* The tail openExistingOrNew and OpenExistingOrNew share: open the existing
\* file for appending and adopt its size and identity.
openExisting(st) ==
    IF st.F = "openAppend" THEN openNew(Note(st, "openFailed", Filename, FALSE, 0))
    ELSE LET info == FileSize(st.fs[Filename])
             s1   == [openAppend(st, info) EXCEPT !.size = info]
         IN  Ok(RecordINode(s1))

\* OpenExistingOrNew (exported; takes no lock and does not close l.file).
OpenExistingOrNew(st) ==
    IF st.F # "stat" /\ ~Exists(st, Filename) THEN openNew(st)
    ELSE IF st.F = "stat" THEN Fail(Note(st, "statFailed", Filename, FALSE, 0))
    ELSE openExisting(st)

\* The test of openExistingOrNew for rotating a file it has not opened yet.
wouldFill(fileSize, writeLen) == fileSize + writeLen >= max

\* openExistingOrNew after its first line, l.mill().
openOrRotate(st, writeLen) ==
    IF st.F # "stat" /\ ~Exists(st, Filename) THEN openNew(st)
    ELSE IF st.F = "stat" THEN Fail(Note(st, "statFailed", Filename, FALSE, 0))
    ELSE IF wouldFill(FileSize(st.fs[Filename]), writeLen) THEN rotate(st)
    ELSE openExisting(st)

\* openExistingOrNew opens the logfile if it exists and if the current write
\* would not put it over MaxSize.
openExistingOrNew(st, writeLen) == openOrRotate(mill(st), writeLen)

\* A write that reports all its bytes written and has put none in the file.
fileWriteNowhere(st, id, writeLen) ==
    [st |-> Note(st, "write", <<>>, TRUE, writeLen), n |-> writeLen, err |-> FALSE]

\* l.file.Write(p), p being writeLen bytes of call id: the bytes go to the
\* file the descriptor is open on, wherever it is in the directory now.
fileWrite(st, id, writeLen) ==
    LET n     == IF st.F = "write" THEN writeLen - 1
                 ELSE IF st.F = "write0" THEN 0 ELSE writeLen
        ino   == st.fds[st.file].ino
        names == {nm \in DOMAIN st.fs : st.fs[nm].ino = ino}
        s1    == IF n = 0 \/ names = {} THEN st
                 ELSE LET nm == CHOOSE x \in names : TRUE
                      IN  [st EXCEPT !.fs[nm].data = Append(@, <<id, n>>),
                                     !.fs[nm].mtime = now]
        s2    == [s1 EXCEPT !.fds[st.file].through = @ + n]
    IN  [st |-> Note(s2, "write", <<>>, names # {}, n), n |-> n, err |-> n < writeLen]

\* A test against the default size where the configured one is meant.
tooLongForDefault(writeLen) == writeLen > defaultMaxSize * megabyte

\* The test of Write for a write longer than a whole file.
tooLong(writeLen) == writeLen > max

\* An assignment where the sum is meant.
setSize(curSize, n) == n

\* l.size += int64(n)
addSize(curSize, n) == curSize + n

\* The test of Write for rotating the open file first.
overflows(curSize, writeLen) == curSize + writeLen > max

\* Write: n, err = l.file.Write(p), reached with the result r of the lines
\* before it; wrote tells that these lines returned no error.
writeFile(r, id, writeLen) ==
    IF r.err THEN [st |-> r.st, n |-> 0, err |-> TRUE, wrote |-> FALSE]
    ELSE fileWrite(r.st, id, writeLen) @@ [wrote |-> TRUE]

\* Write: the rotation of the open file that the write would overflow.
writeFitting(o, id, writeLen) ==
    IF o.err THEN [st |-> o.st, n |-> 0, err |-> TRUE, wrote |-> FALSE]
    ELSE writeFile(IF overflows(o.st.size, writeLen) THEN rotate(o.st) ELSE o,
                   id, writeLen)

\* The body of Write up to and including n, err = l.file.Write(p).
writeThrough(st, id, writeLen) ==
    IF tooLong(writeLen) THEN [st |-> st, n |-> 0, err |-> TRUE, wrote |-> FALSE]
    ELSE writeFitting(IF st.file = 0 THEN openExistingOrNew(st, writeLen) ELSE Ok(st),
                      id, writeLen)

\* Write: l.size += int64(n) and the return.
countWritten(w) ==
    [st  |-> IF w.wrote THEN [w.st EXCEPT !.size = addSize(@, w.n)] ELSE w.st,
     n   |-> w.n,
     err |-> w.err]

\* Write implements io.Writer (the body run under l.mu).
Write(st, id, writeLen) == countWritten(writeThrough(st, id, writeLen))

(***************************************************************************)
(* The mill: removal and compression of old log files.                     *)
(***************************************************************************)
MillFaults == {"none", "readdir", "dirsize", "remove", "openSrc", "statSrc", "chown", "openDst",
               "gzip", "gzClose", "removeSrc"}

\* timeFromName without the comparison of the prefix: the first characters of
\* the name are dropped whatever they are.
timeFromAnyName(filename, prefix, ext, compress) ==
    LET clearFilename == prefix \o ext
    IN  IF compress /\ ~HasSuffix(filename, compressSuffix) THEN [ok |-> FALSE, hour |-> 0]
        ELSE LET t0 == SubSeq(filename, Len(clearFilename) + 1, Len(filename))
                 t1 == TrimPrefix(t0, <<".">>)
                 t2 == IF compress THEN TrimSuffix(t1, compressSuffix) ELSE t1
                 t3 == IF Len(t2) > Len(backupTimeFormat)
                       THEN SubSeq(t2, 1, Len(backupTimeFormat)) ELSE t2
             IN  ParseHour(t3)

\* timeFromName extracts the formatted time from the filename by stripping
\* off the filename's prefix and extension.
timeFromName(filename, prefix, ext, compress) ==
    LET clearFilename == prefix \o ext
    IN  IF ~HasPrefix(filename, clearFilename) THEN [ok |-> FALSE, hour |-> 0]
        ELSE IF compress /\ ~HasSuffix(filename, compressSuffix) THEN [ok |-> FALSE, hour |-> 0]
        ELSE LET t1 == TrimPrefix(TrimPrefix(filename, clearFilename), <<".">>)
                 t2 == IF compress THEN TrimSuffix(t1, compressSuffix) ELSE t1
                 t3 == IF Len(t2) > Len(backupTimeFormat)
                       THEN SubSeq(t2, 1, Len(backupTimeFormat)) ELSE t2
             IN  ParseHour(t3)

\* The time oldLogFiles reads from a name: first as a plain backup, then as a
\* compressed one.
BackupTime(name) ==
    LET pe == prefixAndExt
        t  == timeFromName(name, pe.prefix, pe.ext, FALSE)
    IN  IF t.ok THEN t ELSE timeFromName(name, pe.prefix, pe.ext, TRUE)

\* An order by the time formatted in the name that puts the oldest first.
OldestFirst(a, b) ==
    IF a.timestamp # b.timestamp THEN a.timestamp < b.timestamp
    ELSE IF a.mtime # b.mtime THEN a.mtime > b.mtime
    ELSE StrLess(b.name, a.name)

\* byFormatTime.Less over logInfo records [name, timestamp, size, mtime].
Less(a, b) ==
    IF a.timestamp # b.timestamp THEN a.timestamp > b.timestamp
    ELSE IF a.mtime # b.mtime THEN a.mtime > b.mtime
    ELSE StrLess(b.name, a.name)

RECURSIVE InsertSorted(_, _)
InsertSorted(x, s) ==
    IF s = <<>> THEN <<x>>
    ELSE IF Less(x, Head(s)) THEN <<x>> \o s
    ELSE <<Head(s)>> \o InsertSorted(x, Tail(s))

\* sort.Sort(byFormatTime(logFiles))
RECURSIVE SortInfos(_)
SortInfos(infos) ==
    IF infos = {} THEN <<>>
    ELSE LET x == CHOOSE i \in infos : TRUE
         IN  InsertSorted(x, SortInfos(infos \ {x}))

\* oldLogFiles returns the backup log files of the directory, newest first.
oldLogFiles(fsys) ==
    SortInfos({[name |-> n, timestamp |-> BackupTime(n).hour,
                size |-> FileSize(fsys[n]), mtime |-> fsys[n].mtime]
               : n \in {m \in DOMAIN fsys : BackupTime(m).ok}})

RECURSIVE SumSizes(_)
SumSizes(infos) == IF infos = <<>> THEN 0 ELSE Head(infos).size + SumSizes(Tail(infos))

RECURSIVE SumDir(_, _)
SumDir(fsys, names) ==
    IF names = {} THEN 0
    ELSE LET n == CHOOSE x \in names : TRUE
         IN  FileSize(fsys[n]) + SumDir(fsys, names \ {n})

\* dirsize: the bytes of all files below the log directory.
dirsize(fsys) == SumDir(fsys, DOMAIN fsys) + otherSize

\* The name MaxBackups counts a file under: a compressed file and the plain
\* file of the same name are one backup.
LogicalName(name) == IF HasSuffix(name, compressSuffix)
                     THEN SubSeq(name, 1, Len(name) - Len(compressSuffix)) ELSE name

\* The MaxBackups loop of millRunOnce from the i-th file on.
RECURSIVE countLoop(_, _, _, _, _)
countLoop(files, i, preserved, remove, remaining) ==
    IF i > Len(files) THEN [remove |-> remove, files |-> remaining]
    ELSE LET f == files[i]
             p == preserved \cup {LogicalName(f.name)}
         IN  IF Cardinality(p) > cfg.MaxBackups
             THEN countLoop(files, i + 1, p, Append(remove, f), remaining)
             ELSE countLoop(files, i + 1, p, remove, Append(remaining, f))

countPolicy(files) ==
    IF cfg.MaxBackups > 0 /\ cfg.MaxBackups < Len(files)
    THEN countLoop(files, 1, {}, <<>>, <<>>)
    ELSE [remove |-> <<>>, files |-> files]

\* A test that also takes the file whose time is the cutoff itself.
tooOldOrAt(timestamp) == timestamp * 3 <= (StartHour * 3 + now) - 24 * 3 * cfg.MaxAge

\* f.timestamp.Before(cutoff), cutoff being MaxAge days before now; both in
\* instants.
tooOld(timestamp) == timestamp * 3 < (StartHour * 3 + now) - 24 * 3 * cfg.MaxAge

agePolicy(r) ==
    IF cfg.MaxAge > 0
    THEN LET Old(f)  == tooOld(f.timestamp)
             Keep(f) == ~tooOld(f.timestamp)
         IN  [remove |-> r.remove \o SelectSeq(r.files, Old),
              files  |-> SelectSeq(r.files, Keep)]
    ELSE r

\* The MaxBackupSize loop of millRunOnce: from the last file to the first.
RECURSIVE sizeLoop(_, _, _, _, _)
sizeLoop(files, idx, backupDirSize, remove, remaining) ==
    IF idx = 0 THEN [remove |-> remove, files |-> remaining]
    ELSE LET f == files[idx]
         IN  IF backupDirSize >= maxBackupSize
             THEN sizeLoop(files, idx - 1, backupDirSize - f.size, Append(remove, f), remaining)
             ELSE sizeLoop(files, idx - 1, backupDirSize, remove, Append(remaining, f))

\* A pass without the MaxBackupSize policy.
noSizePolicy(r, fsys) == r

sizePolicy(r, fsys) ==
    IF cfg.MaxBackupSize > 0 /\ dirsize(fsys) >= maxBackupSize
       /\ dirsize(fsys) - SumSizes(r.remove) >= maxBackupSize
    THEN sizeLoop(r.files, Len(r.files), dirsize(fsys) - SumSizes(r.remove), r.remove, <<>>)
    ELSE r

\* Every file left is compressed, whatever its name and the flag.
compressEvery(files) == files

\* The files millRunOnce compresses: the ones left that are not compressed.
compressList(files) ==
    LET Plain(f) == ~HasSuffix(f.name, compressSuffix)
    IN  IF cfg.Compress THEN SelectSeq(files, Plain) ELSE <<>>

\* os.Remove of one file of the remove list.
removeFile(st, name) ==
    IF st.F = "remove" \/ ~Exists(st, name)
    THEN Note(st, "removeFailed", name, FALSE, 0)
    ELSE [Note(st, "remove", name, TRUE, 0) EXCEPT !.fs = RemoveName(st.fs, name)]

\* chown(dst, fi), which is not among the sources: by the specification it
\* makes the new file keep the mode of the old one; the model holds no
\* modes, so it changes nothing, and like any system call it can fail.
chown(st, name) == IF st.F = "chown" THEN Fail(st) ELSE Ok(st)

\* compressLogFile from os.OpenFile(dst, O_CREATE|O_TRUNC|O_WRONLY) to
\* gz.Close(): dst holds the stream, finished when closed.
writeGz(st, src, dst, closed) ==
    [st EXCEPT !.fs = PutName(st.fs, dst,
                         [ino   |-> IF Exists(st, dst) THEN st.fs[dst].ino ELSE st.nextIno,
                          data  |-> gzipStream(st.fs[src].data, closed),
                          gz    |-> TRUE,
                          mtime |-> now]),
               !.nextIno = IF Exists(st, dst) THEN @ ELSE @ + 1]

\* A failure that leaves the output where it is.
keepOutput(st, src, dst) == Note(st, "compressFailed", src, TRUE, 0)

\* The deferred function of compressLogFile when err != nil: os.Remove(dst).
dropOutput(st, src, dst) ==
    [Note(st, "compressFailed", src, TRUE, 0) EXCEPT !.fs = RemoveName(st.fs, dst)]

\* compressLogFile compresses the given log file, removing the uncompressed
\* log file if successful.  The steps before the deferred function is set
\* (os.Open, os_Stat, chown, os.OpenFile of dst) return their error at once;
\* io.Copy ("gzip"), the Close calls ("gzClose") and os.Remove(src)
\* ("removeSrc") return it through the deferred function.
compressLogFile(st, src, dst) ==
    IF ~Exists(st, src) \/ st.F \in {"openSrc", "statSrc", "openDst"} \/ chown(st, dst).err
    THEN Note(st, "compressFailed", src, FALSE, 0)
    ELSE IF st.F = "gzip" THEN dropOutput(writeGz(st, src, dst, FALSE), src, dst)
    ELSE IF st.F \in {"gzClose", "removeSrc"} THEN dropOutput(writeGz(st, src, dst, TRUE), src, dst)
    ELSE [Note(writeGz(st, src, dst, TRUE), "compress", src, Exists(st, dst), 0)
            EXCEPT !.fs = RemoveName(@, src)]

RECURSIVE removeAll(_, _, _)
removeAll(st, remove, i) ==
    IF i > Len(remove) THEN st
    ELSE removeAll(removeFile(st, remove[i].name), remove, i + 1)

RECURSIVE compressAll(_, _, _)
compressAll(st, compress, i) ==
    IF i > Len(compress) THEN st
    ELSE compressAll(compressLogFile(st, compress[i].name, compress[i].name \o compressSuffix),
                     compress, i + 1)

\* millRunOnce performs compression and removal of stale log files.  It
\* returns at once, with nothing removed or compressed, when oldLogFiles
\* ("readdir") or, with MaxBackupSize set, l.dirsize() ("dirsize") fails.
millRunOnce(st) ==
    IF cfg.MaxBackups = 0 /\ cfg.MaxAge = 0 /\ ~cfg.Compress /\ cfg.MaxBackupSize = 0
    THEN st
    ELSE IF st.F = "readdir" THEN Note(st, "readdirFailed", <<>>, FALSE, 0)
    ELSE IF st.F = "dirsize" /\ cfg.MaxBackupSize > 0
    THEN Note(st, "dirsizeFailed", <<>>, FALSE, Len(oldLogFiles(st.fs)))
    ELSE LET files == oldLogFiles(st.fs)
             r     == sizePolicy(agePolicy(countPolicy(files)), st.fs)
         IN  compressAll(removeAll(Note(st, "pass", <<>>, FALSE, Len(files)), r.remove, 1),
                         compressList(r.files), 1)

(***************************************************************************)
(* The state machine.                                                      *)
(***************************************************************************)
\* The instance and the file system as one record, for a call in which the
\* system call F fails.
State(F) == [file |-> file, size |-> size, INode |-> INode, millCh |-> millCh,
             millStarted |-> millStarted, fs |-> fs, fds |-> fds,
             nextIno |-> nextIno, F |-> F, ev |-> <<>>]

Install(st) ==
    /\ file' = st.file
    /\ size' = st.size
    /\ INode' = st.INode
    /\ millCh' = st.millCh
    /\ millStarted' = st.millStarted
    /\ fs' = st.fs
    /\ fds' = st.fds
    /\ nextIno' = st.nextIno

\* On-disk size of the active file, -1 when there is none.
DiskSize == IF Filename \in DOMAIN fs THEN FileSize(fs[Filename]) ELSE -1

Has(ev, e) == \E i \in 1..Len(ev) : ev[i].e = e

\* What a step records about itself; since counts the rounds of the mill
\* begun since a call last raised the signal.
Did(op, len, n, err, ev) ==
    [op |-> op, len |-> len, n |-> n, err |-> err, ev |-> ev,
     preFile |-> file, preSize |-> size, preDisk |-> DiskSize,
     since |-> IF Has(ev, "signal") THEN 0
               ELSE IF op \in {"Mill", "Take"} THEN last.since + 1
               ELSE last.since]


\* The backup names the renames of ev made, added to the ones made before.
RECURSIVE Renamed(_, _)
Renamed(names, ev) ==
    IF ev = <<>> THEN names
    ELSE LET x == Head(ev)
         IN  IF x.e = "rename" /\ \A i \in 1..Len(names) : names[i] # x.name
             THEN Renamed(Append(names, x.name), Tail(ev))
             ELSE Renamed(names, Tail(ev))

\* The failures a step can meet: none once a step has met one.
Among(kinds) == IF faulty THEN {"none"} ELSE kinds

Met(F) == faulty' = (faulty \/ F # "none")

\* The lengths of the buffers written: one byte, one byte less than a full
\* file, a full file, and one byte more than a full file.
Lens == {1, max - 1, max, max + 1}

\* A call has returned r (the state st it leaves, n and err): the writer and
\* the directory are as it leaves them.
Returned(op, len, r) ==
    /\ Install(r.st)
    /\ rotated' = Renamed(rotated, r.st.ev)
    /\ last' = Did(op, len, r.n, r.err, r.st.ev)

\* The bytes of a Write have reached a file of the directory.
Landed(r) ==
    r.n > 0 /\ \E i \in 1..Len(r.st.ev) : r.st.ev[i].e = "write" /\ r.st.ev[i].flag

WriteReturned(op, len, id, r) ==
    /\ Returned(op, len, r)
    /\ journal' = IF Landed(r) THEN Append(journal, <<id, r.n>>) ELSE journal

\* A result without a byte count.
NoCount(r) == [st |-> r.st, n |-> 0, err |-> r.err]

WriteStep(len, F) ==
    /\ WriteReturned("Write", len, calls + 1, Write(State(F), calls + 1, len))
    /\ calls' = calls + 1
    /\ Met(F)
    /\ UNCHANGED <<mu, pc, loc, cfg, wr, otherSize, now, externals, ticked>>

RotateStep(F) ==
    /\ Returned("Rotate", 0, NoCount(rotate(State(F))))
    /\ calls' = calls + 1
    /\ Met(F)
    /\ UNCHANGED <<mu, pc, loc, cfg, wr, otherSize, now, externals, ticked, journal>>

\* RotateWriter.Write called by the owner of the writer.
WriteCall ==
    /\ calls < MaxCalls
    /\ \E len \in Lens, F \in Among(Faults) : WriteStep(len, F)

\* RotateWriter.Rotate called by the owner of the writer.
RotateCall ==
    /\ calls < MaxCalls
    /\ \E F \in Among(Faults) : RotateStep(F)

\* RotateWriter.Close called by the owner of the writer.
CloseCall ==
    /\ calls < MaxCalls
    /\ \E F \in Among({"none", "close"}) :
         /\ Returned("Close", 0, NoCount(close(State(F))))
         /\ Met(F)
    /\ calls' = calls + 1
    /\ UNCHANGED <<mu, pc, loc, cfg, wr, otherSize, now, externals, ticked, journal>>

\* RotateWriter.OpenExistingOrNew called by the owner of the writer.
OpenCall ==
    /\ calls < MaxCalls
    /\ \E F \in Among(Faults) :
         /\ Returned("OpenExistingOrNew", 0, NoCount(OpenExistingOrNew(State(F))))
         /\ Met(F)
    /\ calls' = calls + 1
    /\ UNCHANGED <<mu, pc, loc, cfg, wr, otherSize, now, externals, ticked, journal>>

\* One tick of fileScanner, which NewRotateWriter starts for the writer.
scannerTick(st) ==
    IF ~Exists(st, Filename) THEN rotate(Note(st, "scanMissing", <<>>, FALSE, 0)).st
    ELSE IF MinuteOf(now) = 0 /\ SecondOf(now) = 0
    THEN rotate(Note(st, "scanHour", <<>>, FALSE, 0)).st
    ELSE IF st.fs[Filename].ino # st.INode
    THEN OpenExistingOrNew(Note(st, "scanChanged", <<>>, FALSE, 0)).st
    ELSE st

\* The first look of a tick at INode: a writer without identity takes the
\* one of the file.
adoptINode(st) ==
    IF Exists(st, Filename) /\ st.INode = 0
    THEN [st EXCEPT !.INode = st.fs[Filename].ino] ELSE st

\* A result that is a state only.
Only(st) == [st |-> st, n |-> 0, err |-> FALSE]

ScannerTick ==
    /\ cfg.scanner
    /\ ~ticked
    /\ ticked' = TRUE
    /\ Returned("Tick", 0, Only(scannerTick(adoptINode(State("none")))))
    /\ UNCHANGED <<mu, pc, loc, cfg, wr, otherSize, now, externals, faulty, journal, calls>>

\* One round of millRun: take the signal and run millRunOnce.
MillRun ==
    /\ millStarted
    /\ millCh = 1
    /\ \E F \in Among(MillFaults) :
         /\ Returned("Mill", 0, Only(millRunOnce([State(F) EXCEPT !.millCh = 0])))
         /\ Met(F)
    /\ UNCHANGED <<mu, pc, loc, cfg, wr, otherSize, now, externals, ticked, journal, calls>>

\* Time passes.
Advance ==
    /\ now < MaxClock
    /\ now' = now + 1
    /\ ticked' = FALSE
    /\ last' = Did("Advance", 0, 0, FALSE, <<>>)
    /\ UNCHANGED <<mu, pc, loc, cfg, wr, file, size, INode, millCh, millStarted, fs, fds, nextIno,
                   otherSize, externals, faulty, journal, rotated, calls>>

\* Another program deletes the active file.
ExternalDelete ==
    /\ externals < MaxExternal
    /\ Filename \in DOMAIN fs
    /\ fs' = RemoveName(fs, Filename)
    /\ externals' = externals + 1
    /\ last' = Did("ExternalDelete", 0, 0, FALSE, <<>>)
    /\ UNCHANGED <<mu, pc, loc, cfg, wr, file, size, INode, millCh, millStarted, fds, nextIno,
                   otherSize, now, faulty, ticked, journal, rotated, calls>>

\* Another program puts a file of its own (one byte) in the place of the
\* active file.
ExternalReplace ==
    /\ externals < MaxExternal
    /\ fs' = PutName(fs, Filename,
                     [ino |-> nextIno, data |-> <<<<0, 1>>>>, gz |-> FALSE, mtime |-> now])
    /\ nextIno' = nextIno + 1
    /\ externals' = externals + 1
    /\ last' = Did("ExternalReplace", 0, 0, FALSE, <<>>)
    /\ UNCHANGED <<mu, pc, loc, cfg, wr, file, size, INode, millCh, millStarted, fds,
                   otherSize, now, faulty, ticked, journal, rotated, calls>>

\* The threads that use one writer: two callers and the fileScanner goroutine.
Callers == {"w1", "w2"}

Threads == Callers \cup {"s"}

\* The local variables of a thread: the operation it runs and its argument,
\* the byte count n of l.file.Write, the os.Stat of fileScanner (exists, ino,
\* onHour: the minute and the second of time.Now() are 0), and the size in
\* the info of OpenExistingOrNew.
NoLocals == [op |-> "", len |-> 0, id |-> 0, n |-> 0, exists |-> FALSE, ino |-> 0,
             onHour |-> FALSE, info |-> 0]

\* The configurations a behaviour starts with.  scanner: the writer was made
\* by NewRotateWriter, which starts fileScanner on it and fills in the
\* limits that are zero (MaxSize 2048, MaxAge 14, MaxBackups 1000,
\* MaxBackupSize 102400, LocalTime).
Config(ms, ma, mb, mbs, c, lt, sc) ==
    [MaxSize |-> ms, MaxAge |-> ma, MaxBackups |-> mb, MaxBackupSize |-> mbs,
     Compress |-> c, LocalTime |-> lt, scanner |-> sc]

NewRotateWriter(c) ==
    Config(IF c.MaxSize = 0 THEN 2048 ELSE c.MaxSize,
           IF c.MaxAge = 0 THEN 14 ELSE c.MaxAge,
           IF c.MaxBackups = 0 THEN 1000 ELSE c.MaxBackups,
           IF c.MaxBackupSize = 0 THEN 102400 ELSE c.MaxBackupSize,
           c.Compress, TRUE, TRUE)

Configs ==
    { Config(3, 0, 0, 0, FALSE, FALSE, FALSE),
      Config(0, 0, 0, 0, FALSE, TRUE, FALSE),
      Config(3, 0, 1, 0, FALSE, FALSE, FALSE),
      Config(3, 0, 2, 0, TRUE, TRUE, FALSE),
      NewRotateWriter(Config(3, 0, 1, 0, FALSE, FALSE, FALSE)) }

\* The active file a behaviour finds: none, or one of s bytes.
InitDirs(c) ==
    LET m == IF c.MaxSize = 0 THEN defaultMaxSize * megabyte ELSE c.MaxSize * megabyte
    IN  {<<>>} \cup
        {(Filename :> [ino |-> 1, data |-> <<<<0, s>>>>, gz |-> FALSE, mtime |-> 0]) :
            s \in {1, m - 1, m}}

InitWriter(c, dir, nofault) ==
    /\ cfg = c
    /\ file = 0
    /\ size = 0
    /\ INode = IF c.scanner /\ Filename \in DOMAIN dir THEN dir[Filename].ino ELSE 0
    /\ millCh = 0
    /\ millStarted = FALSE
    /\ fs = dir
    /\ fds = <<>>
    /\ nextIno = 4
    /\ otherSize = 0
    /\ now = 0
    /\ calls = 0
    /\ externals = 0
    /\ faulty = nofault
    /\ ticked = FALSE
    /\ journal = IF Filename \in DOMAIN dir THEN dir[Filename].data ELSE <<>>
    /\ rotated = <<>>
    /\ last = [op |-> "Init", len |-> 0, n |-> 0, err |-> FALSE, ev |-> <<>>,
               preFile |-> 0, preSize |-> 0, preDisk |-> -1, since |-> 0]
    /\ mu = ""
    /\ pc = [t \in Threads \cup {"m"} |-> "idle"]
    /\ loc = [t \in Threads |-> NoLocals]

\* No Writer of writer.go is around the instance.
NoMsg == [id |-> 0, data |-> 0, shared |-> FALSE]

\* No second RotateWriter has been made for the path.
NoTwin == [made |-> FALSE, file |-> 0, size |-> 0, INode |-> 0, millCh |-> 0,
           millStarted |-> FALSE, tickedAt |-> -1]

NoWriter == [kind |-> "none", closeChan |-> "none", quit |-> "none", scanner |-> "none",
             watcher |-> "none", queue |-> <<>>, maxQueueSize |-> 0, cap |-> 0, buf |-> 0,
             held |-> [watcher |-> NoMsg, sync |-> NoMsg], sync |-> "none",
             accepted |-> <<>>, handed |-> <<>>, closes |-> 0, panicked |-> FALSE,
             twin |-> NoTwin]

InitWith(c, dir, nofault) ==
    /\ wr = NoWriter
    /\ InitWriter(c, dir, nofault)

Init == \E c \in Configs : \E dir \in InitDirs(c) : InitWith(c, dir, FALSE)

\* The writer used by one caller at a time, and its mill.
Next ==
    \/ WriteCall
    \/ RotateCall
    \/ CloseCall
    \/ OpenCall
    \/ MillRun

Spec == Init /\ [][Next]_vars

\* The mill at work: a writer with MaxBackups set, in a directory that may
\* hold backups of earlier runs, is written to and rotated while the clock
\* advances; no system call fails.
MillConfigs ==
    { Config(3, 0, 1, 0, FALSE, FALSE, FALSE),
      Config(3, 0, 1, 0, TRUE, TRUE, FALSE),
      Config(3, 0, 2, 0, FALSE, TRUE, FALSE),
      Config(3, 0, 2, 0, TRUE, FALSE, FALSE) }

\* A plain file of s bytes written at instant t.
OldFile(ino, s, t) == [ino |-> ino, data |-> <<<<0, s>>>>, gz |-> FALSE, mtime |-> t]

\* A compressed file of s bytes written at instant t.
OldGzFile(ino, s, t) ==
    [ino |-> ino, data |-> gzipStream(<<<<0, s>>>>, TRUE), gz |-> TRUE, mtime |-> t]

\* The name of a backup made h hours before the start.
OldName(h) == Filename \o <<".">> \o FormatHour(StartHour - h)

MillDirs ==
    { (Filename :> OldFile(1, 1, 0)),
      (Filename :> OldFile(1, 1, 0)) @@ (OldName(2) :> OldFile(2, 2, -6)),
      (Filename :> OldFile(1, 1, 0)) @@ (OldName(2) :> OldFile(2, 2, -6))
         @@ ((OldName(3) \o compressSuffix) :> OldGzFile(3, 3, -9)) }

InitMill ==
    \E c \in MillConfigs : \E dir \in MillDirs :
        /\ InitWith(c, dir, TRUE)

NextMill == WriteCall \/ RotateCall \/ MillRun \/ Advance

SpecMill == InitMill /\ [][NextMill]_vars

\* The mill with MaxAge or MaxBackupSize set: the directory holds backups of
\* earlier runs whose names are one hour younger than MaxAge days before the
\* start, exactly that old, and one hour older; no system call fails.
RetainConfigs ==
    { Config(3, 1, 0, 0, FALSE, FALSE, FALSE),
      Config(3, 1, 0, 0, TRUE, TRUE, FALSE),
      Config(3, 2, 1, 0, FALSE, FALSE, FALSE),
      Config(3, 1, 0, 6, FALSE, FALSE, FALSE),
      Config(3, 0, 0, 4, FALSE, FALSE, FALSE),
      Config(3, 0, 0, 4, TRUE, TRUE, FALSE),
      Config(3, 0, 0, 0, TRUE, FALSE, FALSE) }

\* Hours in the days of c.MaxAge (of one day when MaxAge is 0).
AgeHours(c) == 24 * (IF c.MaxAge = 0 THEN 1 ELSE c.MaxAge)

RetainDirs(c) ==
    { (Filename :> OldFile(1, 1, 0)) @@ (OldName(AgeHours(c)) :> OldFile(2, 2, -6)),
      (Filename :> OldFile(1, 1, 0)) @@ (OldName(AgeHours(c) - 1) :> OldFile(2, 1, -6))
         @@ (OldName(AgeHours(c)) :> OldFile(3, 2, -9))
         @@ ((OldName(AgeHours(c) + 1) \o compressSuffix) :> OldGzFile(5, 3, -12)) }

InitRetain ==
    \E c \in RetainConfigs : \E dir \in RetainDirs(c) :
        /\ InitWith(c, dir, TRUE)

SpecRetain == InitRetain /\ [][NextMill]_vars

\* Another stream of the process, which logs to the same directory, has
\* written files of its own there: one byte, or as much as MaxBackupSize.
OtherStream ==
    /\ otherSize = 0
    /\ \E s \in {1, maxBackupSize} : s > 0 /\ otherSize' = s
    /\ last' = Did("OtherStream", 0, 0, FALSE, <<>>)
    /\ UNCHANGED <<mu, pc, loc, cfg, wr, file, size, INode, millCh, millStarted, fs, fds, nextIno,
                   now, calls, externals, faulty, ticked, journal, rotated>>

\* The mill with MaxBackupSize set, alone and beside MaxBackups and MaxAge,
\* in a directory that other streams fill too; no system call fails.
BudgetConfigs ==
    { Config(3, 0, 0, 4, FALSE, FALSE, FALSE),
      Config(3, 0, 0, 6, TRUE, TRUE, FALSE),
      Config(3, 1, 0, 4, FALSE, FALSE, FALSE),
      Config(3, 0, 2, 4, FALSE, FALSE, FALSE),
      Config(3, 1, 2, 6, FALSE, TRUE, FALSE) }

InitBudget ==
    \E c \in BudgetConfigs : \E dir \in RetainDirs(c) :
        /\ InitWith(c, dir, TRUE)

NextBudget == WriteCall \/ RotateCall \/ MillRun \/ OtherStream

SpecBudget == InitBudget /\ [][NextBudget]_vars

\* The mill with MaxBackups set in a directory where an earlier compression
\* wrote the compressed file and could not remove its source, so that a
\* backup is there plain and compressed: alone, and beside the numbered
\* backup of the same hour, which was last written to between the two.
PairDirs ==
    { (Filename :> OldFile(1, 1, 0)) @@ (OldName(2) :> OldFile(2, 2, -9))
         @@ ((OldName(2) \o compressSuffix) :> OldGzFile(3, 2, -3))
         @@ (OldName(3) :> OldFile(4, 1, -12)),
      (Filename :> OldFile(1, 1, 0)) @@ (OldName(2) :> OldFile(2, 2, -9))
         @@ ((OldName(2) \o compressSuffix) :> OldGzFile(3, 2, -3))
         @@ ((OldName(2) \o <<"1">>) :> OldFile(4, 1, -6)) }

InitPairs ==
    \E c \in MillConfigs : \E dir \in PairDirs :
        /\ InitWith(c, dir, TRUE)

NextPairs == WriteCall \/ RotateCall \/ MillRun

SpecPairs == InitPairs /\ [][NextPairs]_vars

\* Names beside the backups: the backup of another stream that writes to
\* the same directory, a name with no timestamp, a timestamp that names no
\* hour, and a timestamp that follows the file name with no dot.
OtherName(h) == <<"b", ".", "l", ".">> \o FormatHour(StartHour - h)
NoStamp      == Filename \o <<".", "x">>
NoHour(h)    == Filename \o <<".">> \o SubSeq(FormatHour(StartHour - h), 1, 8) \o <<"2", "4">>
NoDot(h)     == Filename \o FormatHour(StartHour - h)

NameDirs ==
    { (Filename :> OldFile(1, 1, 0)) @@ (OldName(2) :> OldFile(2, 1, -6))
         @@ ((OldName(3) \o <<"1">>) :> OldFile(3, 1, -9))
         @@ (OtherName(4) :> OldFile(4, 1, -12)) @@ (NoStamp :> OldFile(5, 1, -12)),
      (Filename :> OldFile(1, 1, 0)) @@ (OldName(2) :> OldFile(2, 1, -6))
         @@ (NoDot(3) :> OldFile(3, 1, -9))
         @@ (NoHour(4) :> OldFile(4, 1, -12)) @@ (OtherName(4) :> OldFile(5, 1, -12)) }

InitNames ==
    \E c \in MillConfigs : \E dir \in NameDirs :
        /\ InitWith(c, dir, TRUE)

NextNames == WriteCall \/ RotateCall \/ MillRun

SpecNames == InitNames /\ [][NextNames]_vars

\* The mill with the compress flag set beside each of the limits and beside
\* all of them, in a directory of plain and compressed backups of the last
\* hours and of more than a day ago, one of them in both forms, the plain
\* one written to before the compressed one or after it (a rotation takes
\* the name of the hour again when only the compressed file has it); one
\* system call of a behaviour may fail.
CompressConfigs ==
    { Config(3, 0, 2, 0, TRUE, FALSE, FALSE),
      Config(3, 1, 0, 0, TRUE, FALSE, FALSE),
      Config(3, 0, 0, 5, TRUE, FALSE, FALSE),
      Config(3, 1, 3, 6, TRUE, FALSE, FALSE),
      Config(3, 1, 3, 6, FALSE, FALSE, FALSE) }

CompressDirs ==
    { (Filename :> OldFile(1, 1, 0)) @@ (OldName(2) :> OldFile(2, 1, -6))
         @@ ((OldName(3) \o compressSuffix) :> OldGzFile(3, 1, -9))
         @@ (OldName(26) :> OldFile(4, 1, -78))
         @@ ((OldName(27) \o compressSuffix) :> OldGzFile(5, 1, -81)),
      (Filename :> OldFile(1, 1, 0)) @@ (OldName(2) :> OldFile(2, 2, -9))
         @@ ((OldName(2) \o compressSuffix) :> OldGzFile(3, 2, -3))
         @@ ((OldName(2) \o <<"1">>) :> OldFile(4, 1, -6))
         @@ (OldName(3) :> OldFile(5, 1, -12)),
      (Filename :> OldFile(1, 1, 0)) @@ (OldName(2) :> OldFile(2, 2, -3))
         @@ ((OldName(2) \o compressSuffix) :> OldGzFile(3, 3, -9)) }

InitKeep ==
    \E c \in CompressConfigs : \E dir \in CompressDirs :
        /\ InitWith(c, dir, FALSE)

NextKeep == WriteCall \/ RotateCall \/ MillRun

SpecKeep == InitKeep /\ [][NextKeep]_vars

\* The mill with limits set in a directory with old backups, where one
\* system call of a behaviour may fail.
InitFaulty ==
    \E c \in RetainConfigs \cup BudgetConfigs : \E dir \in RetainDirs(c) :
        /\ InitWith(c, dir, FALSE)

NextFaulty == WriteCall \/ RotateCall \/ MillRun

SpecFaulty == InitFaulty /\ [][NextFaulty]_vars

\* A burst within one clock hour on an empty directory, without limits on
\* the backups and without failures: the caller writes full files one after
\* the other, or writes one byte and then calls Rotate over and over.
InitBurst == InitWith(Config(3, 0, 0, 0, FALSE, FALSE, FALSE), <<>>, TRUE)

BurstWrite ==
    /\ calls < MaxBurst
    /\ last.op \in {"Init", "Write"}
    /\ WriteStep(IF calls = 0 THEN 1 ELSE max, "none")

BurstRotate ==
    /\ calls < MaxBurst
    /\ calls = 1 \/ last.op = "Rotate"
    /\ RotateStep("none")

NextBurst == BurstWrite \/ BurstRotate \/ MillRun

SpecBurst == InitBurst /\ [][NextBurst]_vars

(***************************************************************************)
(* The millRun goroutine step by step: for range l.millCh takes the signal *)
(* (MillTake), then millRunOnce runs (MillPass) while the owner of the     *)
(* writer goes on calling Write and Rotate.                                *)
(***************************************************************************)
\* for range l.millCh: the goroutine receives the pending signal.
MillTake ==
    /\ millStarted
    /\ pc["m"] = "idle"
    /\ millCh > 0
    /\ millCh' = millCh - 1
    /\ pc' = [pc EXCEPT !["m"] = "run"]
    /\ last' = Did("Take", 0, 0, FALSE, <<>>)
    /\ UNCHANGED <<mu, loc, cfg, wr, file, size, INode, millStarted, fs, fds, nextIno,
                   otherSize, now, externals, faulty, ticked, journal, rotated, calls>>

\* _ = l.millRunOnce(): the round runs and the goroutine is back at the
\* channel.
MillPass ==
    /\ pc["m"] = "run"
    /\ \E F \in Among(MillFaults) :
         /\ Returned("Pass", 0, Only(millRunOnce(State(F))))
         /\ Met(F)
    /\ pc' = [pc EXCEPT !["m"] = "idle"]
    /\ UNCHANGED <<mu, loc, cfg, wr, otherSize, now, externals, ticked, journal, calls>>

\* The system calls of a rotation that fail in SpecSignal.
RotateFaults == {"none", "rename", "openCreate"}

RoundWrite ==
    /\ calls < MaxRounds
    /\ \E len \in {1, max}, F \in Among(RotateFaults) : WriteStep(len, F)

RoundRotate ==
    /\ calls < MaxRounds
    /\ \E F \in Among(RotateFaults) : RotateStep(F)

RoundClose ==
    /\ calls < MaxRounds
    /\ \E F \in Among({"none", "close"}) :
         /\ Returned("Close", 0, NoCount(close(State(F))))
         /\ Met(F)
    /\ calls' = calls + 1
    /\ UNCHANGED <<mu, pc, loc, cfg, wr, otherSize, now, externals, ticked, journal>>

InitSignal ==
    \E c \in {Config(3, 0, 1, 0, FALSE, FALSE, FALSE), Config(3, 0, 0, 0, TRUE, TRUE, FALSE)} :
        \E dir \in {<<>>, (Filename :> OldFile(1, 1, 0))} :
            InitWith(c, dir, FALSE)

NextSignal == RoundWrite \/ RoundRotate \/ RoundClose \/ MillTake \/ MillPass

SpecSignal == InitSignal /\ [][NextSignal]_vars

\* The step in which millRunOnce returns, whatever it did: of the steps of
\* NextSignal the MillPass steps are the ones of this kind, and MillPass is
\* possible exactly when the goroutine is in a round.
PassEnds == pc["m"] = "run" /\ pc' = [pc EXCEPT !["m"] = "idle"]

\* The same with the millRun goroutine scheduled fairly: a receive that
\* stays possible is made, and a round that has begun ends.
FairSignal == SpecSignal /\ WF_vars(MillTake) /\ WF_pc(PassEnds)

(***************************************************************************)
(* The writer shared by threads.  Write, Rotate and Close run between      *)
(* l.mu.Lock() and l.mu.Unlock(); fileScanner and OpenExistingOrNew run    *)
(* statement by statement without the lock.  No system call fails.         *)
(***************************************************************************)
\* A thread moves on: its new position and its new locals.
Goto(t, p, l) ==
    /\ pc' = [pc EXCEPT ![t] = p]
    /\ loc' = [loc EXCEPT ![t] = l]

\* A thread is inside the body of Write, Rotate, Close or OpenExistingOrNew.
InBody(t) == pc[t] \in {"body", "add", "openFile", "openSize", "openINode"}

\* A caller calls Write(p), Rotate() or Close() and arrives at l.mu.Lock().
Call(t) ==
    /\ pc[t] = "idle"
    /\ calls < MaxCalls
    /\ \E op \in {"Write", "Rotate", "Close"}, len \in {1, max} :
         /\ op # "Write" => len = 1
         /\ Goto(t, "lock", [NoLocals EXCEPT !.op = op, !.len = len, !.id = calls + 1])
    /\ calls' = calls + 1
    /\ UNCHANGED <<last, cfg, wr, file, size, INode, millCh, millStarted, fs, fds, nextIno,
                   otherSize, now, externals, faulty, ticked, journal, rotated, mu>>

\* l.mu.Lock() returns.
Lock(t) ==
    /\ pc[t] = "lock"
    /\ mu = ""
    /\ mu' = t
    /\ Goto(t, "body", loc[t])
    /\ UNCHANGED <<last, cfg, wr, file, size, INode, millCh, millStarted, fs, fds, nextIno,
                   otherSize, now, calls, externals, faulty, ticked, journal, rotated>>

\* Write from its first line to n, err = l.file.Write(p).
WriteBodyDone(t, r) ==
    /\ WriteReturned("WriteBody", loc[t].len, loc[t].id, r)
    /\ IF r.wrote
       THEN Goto(t, "add", [loc[t] EXCEPT !.n = r.n]) /\ mu' = mu
       ELSE Goto(t, "idle", NoLocals) /\ mu' = ""

WriteBody(t) ==
    /\ pc[t] = "body"
    /\ loc[t].op = "Write"
    /\ WriteBodyDone(t, writeThrough(State("none"), loc[t].id, loc[t].len))
    /\ UNCHANGED <<cfg, wr, otherSize, now, calls, externals, faulty, ticked>>

\* l.size += int64(n), the return and the deferred l.mu.Unlock().
WriteAdd(t) ==
    /\ pc[t] = "add"
    /\ size' = addSize(size, loc[t].n)
    /\ mu' = ""
    /\ Goto(t, "idle", NoLocals)
    /\ UNCHANGED <<last, cfg, wr, file, INode, millCh, millStarted, fs, fds, nextIno,
                   otherSize, now, calls, externals, faulty, ticked, journal, rotated>>

\* The body of Rotate and the deferred l.mu.Unlock().
RotateBody(t) ==
    /\ pc[t] = "body"
    /\ loc[t].op = "Rotate"
    /\ Returned("RotateBody", 0, NoCount(rotate(State("none"))))
    /\ mu' = ""
    /\ Goto(t, "idle", NoLocals)
    /\ UNCHANGED <<cfg, wr, otherSize, now, calls, externals, faulty, ticked, journal>>

\* The body of Close and the deferred l.mu.Unlock().
CloseBody(t) ==
    /\ pc[t] = "body"
    /\ loc[t].op = "Close"
    /\ Returned("CloseBody", 0, NoCount(close(State("none"))))
    /\ mu' = ""
    /\ Goto(t, "idle", NoLocals)
    /\ UNCHANGED <<cfg, wr, otherSize, now, calls, externals, faulty, ticked, journal>>

\* fileScanner, a tick: time.Now(), os.Stat, and the first look at INode.
ScanStat ==
    /\ cfg.scanner
    /\ pc["s"] = "idle"
    /\ ~ticked
    /\ ticked' = TRUE
    /\ LET exists == Filename \in DOMAIN fs
           ino    == IF exists THEN fs[Filename].ino ELSE 0
       IN  /\ INode' = IF exists /\ INode = 0 THEN ino ELSE INode
           /\ Goto("s", "branch", [NoLocals EXCEPT !.exists = exists, !.ino = ino,
                       !.onHour = (MinuteOf(now) = 0 /\ SecondOf(now) = 0)])
    /\ UNCHANGED <<last, cfg, wr, file, size, millCh, millStarted, fs, fds, nextIno,
                   otherSize, now, calls, externals, faulty, journal, rotated, mu>>

\* fileScanner, the branch: Rotate when the file is missing or the hour has
\* begun, OpenExistingOrNew when the identity read now differs from the stat.
ScanBranch ==
    /\ pc["s"] = "branch"
    /\ IF ~loc["s"].exists \/ loc["s"].onHour
       THEN Goto("s", "lock", [loc["s"] EXCEPT !.op = "Rotate"])
       ELSE IF loc["s"].ino # INode
       THEN Goto("s", "open", NoLocals)
       ELSE Goto("s", "idle", NoLocals)
    /\ UNCHANGED <<last, cfg, wr, file, size, INode, millCh, millStarted, fs, fds, nextIno,
                   otherSize, now, calls, externals, faulty, ticked, journal, rotated, mu>>

\* What OpenExistingOrNew does when it goes to openNew.
OpenNewInstead ==
    /\ Returned("OpenNew", 0, NoCount(openNew(State("none"))))
    /\ Goto("s", "idle", NoLocals)

\* OpenExistingOrNew: info, err := os_Stat(filename).
OpenStat ==
    /\ pc["s"] = "open"
    /\ IF Filename \notin DOMAIN fs
       THEN OpenNewInstead
       ELSE /\ Goto("s", "openFile", [NoLocals EXCEPT !.info = FileSize(fs[Filename])])
            /\ UNCHANGED <<file, size, INode, millCh, millStarted, fs, fds, nextIno,
                           rotated, last>>
    /\ UNCHANGED <<cfg, wr, otherSize, now, calls, externals, faulty, ticked, journal, mu>>

\* OpenExistingOrNew: os.OpenFile and l.file = file.
OpenFile ==
    /\ pc["s"] = "openFile"
    /\ IF Filename \notin DOMAIN fs
       THEN OpenNewInstead
       ELSE /\ Returned("OpenFile", 0, Only(openAppend(State("none"), loc["s"].info)))
            /\ Goto("s", "openSize", loc["s"])
    /\ UNCHANGED <<cfg, wr, otherSize, now, calls, externals, faulty, ticked, journal, mu>>

\* OpenExistingOrNew: l.size = info.Size().
OpenSize ==
    /\ pc["s"] = "openSize"
    /\ size' = loc["s"].info
    /\ Goto("s", "openINode", loc["s"])
    /\ UNCHANGED <<last, cfg, wr, file, INode, millCh, millStarted, fs, fds, nextIno,
                   otherSize, now, calls, externals, faulty, ticked, journal, rotated, mu>>

\* OpenExistingOrNew: the second os_Stat and l.INode.
OpenINode ==
    /\ pc["s"] = "openINode"
    /\ INode' = IF Filename \in DOMAIN fs THEN fs[Filename].ino ELSE INode
    /\ Goto("s", "idle", NoLocals)
    /\ UNCHANGED <<last, cfg, wr, file, size, millCh, millStarted, fs, fds, nextIno,
                   otherSize, now, calls, externals, faulty, ticked, journal, rotated, mu>>

\* A writer made by NewRotateWriter, in a directory with or without an
\* active file.
InitConc ==
    LET c == NewRotateWriter(Config(3, 0, 1, 0, FALSE, FALSE, FALSE))
    IN  \E dir \in InitDirs(c) : InitWith(c, dir, TRUE)

NextConc ==
    \/ \E t \in Callers : Call(t)
    \/ \E t \in Threads : Lock(t)
    \/ \E t \in Callers : WriteBody(t)
    \/ \E t \in Callers : WriteAdd(t)
    \/ \E t \in Threads : RotateBody(t)
    \/ \E t \in Callers : CloseBody(t)
    \/ ScanStat
    \/ ScanBranch
    \/ OpenStat
    \/ OpenFile
    \/ OpenSize
    \/ OpenINode
    \/ Advance

SpecConc == InitConc /\ [][NextConc]_vars

\* The first second after the hour boundary passes.
FirstSecond == now = 0 /\ Advance

\* The same over that one second, with the active file missing or full at
\* the start.
InitShort ==
    LET c == NewRotateWriter(Config(3, 0, 1, 0, FALSE, FALSE, FALSE))
    IN  \E dir \in {<<>>, (Filename :> OldFile(1, c.MaxSize * megabyte, 0))} : InitWith(c, dir, TRUE)

NextShort ==
    \/ \E t \in Callers : Call(t)
    \/ \E t \in Threads : Lock(t)
    \/ \E t \in Callers : WriteBody(t)
    \/ \E t \in Callers : WriteAdd(t)
    \/ \E t \in Threads : RotateBody(t)
    \/ \E t \in Callers : CloseBody(t)
    \/ ScanStat
    \/ ScanBranch
    \/ OpenStat
    \/ OpenFile
    \/ OpenSize
    \/ OpenINode
    \/ FirstSecond

SpecShort == InitShort /\ [][NextShort]_vars

(***************************************************************************)
(* The scanner at work: a writer made by NewRotateWriter is written to      *)
(* while fileScanner ticks once in each instant, the clock runs over an    *)
(* hour boundary, and another program deletes or replaces the active file. *)
(***************************************************************************)

\* Time passes, into the next hour and beyond.
SecondPasses ==
    /\ now < MaxTicks
    /\ now' = now + 1
    /\ ticked' = FALSE
    /\ last' = Did("Advance", 0, 0, FALSE, <<>>)
    /\ UNCHANGED <<mu, pc, loc, cfg, wr, file, size, INode, millCh, millStarted, fs, fds, nextIno,
                   otherSize, externals, faulty, journal, rotated, calls>>

InitScan ==
    LET c == NewRotateWriter(Config(3, 0, 1, 0, FALSE, FALSE, FALSE))
    IN  \E dir \in {<<>>, (Filename :> OldFile(1, 1, 0))} : InitWith(c, dir, TRUE)

NextScan ==
    \/ WriteCall
    \/ ScannerTick
    \/ SecondPasses
    \/ ExternalDelete
    \/ ExternalReplace

SpecScan == InitScan /\ [][NextScan]_vars

(***************************************************************************)
(* NewRotateWriter called again for the same module.  Every call makes a   *)
(* RotateWriter for each output path of the module and starts a            *)
(* fileScanner for it; nothing records the writers made before.  twin is   *)
(* the RotateWriter of a second call for the path: its fields, and the     *)
(* instant of its scanner's last tick.  The descriptors of both writers    *)
(* are those of the one process.                                           *)
(***************************************************************************)

\* The RotateWriter a call of NewRotateWriter makes for the path.
newRotateWriter(fsys) ==
    [made |-> TRUE, file |-> 0, size |-> 0,
     INode |-> IF Filename \in DOMAIN fsys THEN fsys[Filename].ino ELSE 0,
     millCh |-> 0, millStarted |-> FALSE, tickedAt |-> -1]

NewRotateWriterAgain ==
    /\ cfg.scanner
    /\ ~wr.twin.made
    /\ wr' = [wr EXCEPT !.twin = newRotateWriter(fs)]
    /\ last' = Did("NewRotateWriter", 0, 0, FALSE, <<>>)
    /\ UNCHANGED <<mu, pc, loc, cfg, file, size, INode, millCh, millStarted, fs, fds, nextIno,
                   otherSize, now, calls, externals, faulty, ticked, journal, rotated>>

\* The second writer and the directory as one record.
TwinState ==
    [State("none") EXCEPT !.file = wr.twin.file, !.size = wr.twin.size,
                          !.INode = wr.twin.INode, !.millCh = wr.twin.millCh,
                          !.millStarted = wr.twin.millStarted]

\* A call on the second writer has left st.
TwinReturned(op, st) ==
    /\ wr' = [wr EXCEPT !.twin = [made |-> TRUE, file |-> st.file, size |-> st.size,
                                  INode |-> st.INode, millCh |-> st.millCh,
                                  millStarted |-> st.millStarted, tickedAt |-> now]]
    /\ fs' = st.fs
    /\ fds' = st.fds
    /\ nextIno' = st.nextIno
    /\ rotated' = Renamed(rotated, st.ev)
    /\ last' = Did(op, 0, 0, FALSE, st.ev)

\* One tick of the fileScanner of the second writer.
TwinTick ==
    /\ wr.twin.made
    /\ wr.twin.tickedAt # now
    /\ TwinReturned("TwinTick", scannerTick(adoptINode(TwinState)))
    /\ UNCHANGED <<mu, pc, loc, cfg, file, size, INode, millCh, millStarted,
                   otherSize, now, calls, externals, faulty, ticked, journal>>

InitTwice ==
    LET c == NewRotateWriter(Config(3, 0, 1, 0, FALSE, FALSE, FALSE))
    IN  \E dir \in {<<>>, (Filename :> OldFile(1, 1, 0))} : InitWith(c, dir, TRUE)

NextTwice ==
    \/ WriteCall
    \/ ScannerTick
    \/ SecondPasses
    \/ NewRotateWriterAgain
    \/ TwinTick

SpecTwice == InitTwice /\ [][NextTwice]_vars

(***************************************************************************)
(* The Writer of writer.go: the value NewRotateWriter, NewAsyncWriter or   *)
(* NewAsyncRotateWriter returns, with the fileScanner goroutine of the     *)
(* rotate writer and the watcher goroutine of the async writer.  kind is   *)
(* the constructor; NewAsyncWriter is given a writer on stdout.  An        *)
(* unrecovered panic ends the process: nothing happens after it.           *)
(* queue is the channel of the async writer, maxQueueSize what the         *)
(* configuration gives for it (0 when unset), cap its capacity, buf what   *)
(* the caller's buffer holds now, held the message the watcher or a Sync   *)
(* has received and not yet written, sync the state of a call of Sync;     *)
(* accepted and handed are ghosts: the messages Write took and the         *)
(* messages given to the underlying writer, in order.                      *)
(***************************************************************************)
Kinds == {"NewRotateWriter", "NewAsyncWriter", "NewAsyncRotateWriter"}

\* The constructors: NewRotateWriter makes quitChan and starts fileScanner,
\* NewAsyncWriter makes quit and the queue and starts watcher.
\* NewAsyncWriter: config.MaxQueueSize, 100000 when it is 0.
defaultQueueSize == 100000

queueSize(configured) == IF configured = 0 THEN defaultQueueSize ELSE configured

NewWriter(kind) ==
    LET file_ == kind \in {"NewRotateWriter", "NewAsyncRotateWriter"}
        async == kind \in {"NewAsyncWriter", "NewAsyncRotateWriter"}
    IN  [kind      |-> kind,
         closeChan |-> IF file_ THEN "open" ELSE "none",
         scanner   |-> IF file_ THEN "running" ELSE "none",
         quit      |-> IF async THEN "open" ELSE "none",
         watcher   |-> IF async THEN "running" ELSE "none",
         queue     |-> <<>>,
         maxQueueSize |-> IF async THEN MaxQueue ELSE 0,
         cap       |-> IF async THEN queueSize(MaxQueue) ELSE 0,
         buf       |-> 0,
         held      |-> [watcher |-> NoMsg, sync |-> NoMsg],
         sync      |-> IF async THEN "idle" ELSE "none",
         accepted  |-> <<>>,
         handed    |-> <<>>,
         closes    |-> 0,
         panicked  |-> FALSE,
         twin      |-> NoTwin]

\* close(ch) of Go: closing a channel that is closed panics.
closeChannel(w, ch) ==
    IF w[ch] = "closed" THEN [w EXCEPT !.panicked = TRUE] ELSE [w EXCEPT ![ch] = "closed"]

\* A Close that closes no channel.
closeNothing(w) == w

\* closerWriter.Close as NewRotateWriter builds it: closeFunc calls Close of
\* the closerWriter of each output path, which closes its closeChan when it
\* has one (stdout and stderr have none).
closerWriterClose(w) ==
    IF w.closeChan = "none" THEN w ELSE closeChannel(w, "closeChan")

\* asyncWriter.Close: close(w.quit), then w.writer.Close().
asyncWriterClose(w) ==
    IF w.quit = "closed" THEN closeChannel(w, "quit")
    ELSE closerWriterClose(closeChannel(w, "quit"))

Alive == ~wr.panicked

\* Close called on the Writer.
WriterClose ==
    /\ Alive
    /\ wr.closes < MaxCloses
    /\ wr' = [(IF wr.kind = "NewRotateWriter" THEN closerWriterClose(wr)
                                               ELSE asyncWriterClose(wr))
                EXCEPT !.closes = @ + 1]
    /\ last' = Did("WriterClose", 0, 0, FALSE, <<>>)
    /\ UNCHANGED <<mu, pc, loc, cfg, file, size, INode, millCh, millStarted, fs, fds, nextIno,
                   otherSize, now, calls, externals, faulty, ticked, journal, rotated>>

\* Write called on the Writer of NewRotateWriter: RotateWriter.Write.
DirectWrite ==
    /\ Alive
    /\ wr.kind = "NewRotateWriter"
    /\ calls < MaxCalls
    /\ \E len \in {1, max} : WriteStep(len, "none")

\* The contents a caller puts in its buffer.
Datas == {1, 2}

\* A message that is the caller's buffer itself.
share(id, d) == [id |-> id, data |-> d, shared |-> TRUE]

\* data := make([]byte, len(b)); copy(data, b)
copy(id, d) == [id |-> id, data |-> d, shared |-> FALSE]

\* What a holder of message m reads in it: its own bytes, or the caller's
\* buffer as it is now.
Read(w, m) == [id |-> m.id, data |-> IF m.shared THEN w.buf ELSE m.data]

\* A send that puts the message in the channel whatever it holds.
sendAnyway(w, m) == [w EXCEPT !.queue = Append(@, m), !.accepted = Append(@, Read(w, m))]

\* select { case w.queue <- data: ... default: ... }
send(w, m) ==
    IF Len(w.queue) < w.cap
    THEN [w EXCEPT !.queue = Append(@, m), !.accepted = Append(@, Read(w, m))]
    ELSE w

\* asyncWriter.Write of a buffer the caller has filled with d: a copy is
\* queued, or dropped when the queue is full; n is len(b) or 0.
AsyncWrite ==
    /\ Alive
    /\ wr.kind # "NewRotateWriter"
    /\ calls < MaxCalls
    /\ calls' = calls + 1
    /\ \E d \in Datas : wr' = send([wr EXCEPT !.buf = d], copy(calls + 1, d))
    /\ last' = Did("AsyncWrite", 1, Len(wr'.queue) - Len(wr.queue), FALSE, <<>>)
    /\ UNCHANGED <<mu, pc, loc, cfg, file, size, INode, millCh, millStarted, fs, fds, nextIno,
                   otherSize, now, externals, faulty, ticked, journal, rotated>>

\* w.writer.Write(msg) by the watcher or by Sync.
HandOver(m) ==
    IF wr.kind = "NewAsyncRotateWriter"
    THEN WriteReturned("Write", 1, m.id, Write(State("none"), m.id, 1))
    ELSE /\ last' = Did("Stdout", 1, 1, FALSE, <<>>)
         /\ UNCHANGED <<file, size, INode, millCh, millStarted, fs, fds, nextIno,
                        journal, rotated>>

\* watcher, case msg := <-w.queue: w.writer.Write(msg), as one step.
Pump ==
    /\ Alive
    /\ wr.watcher = "running"
    /\ wr.held.watcher = NoMsg
    /\ wr.queue # <<>>
    /\ wr' = [wr EXCEPT !.queue = Tail(@), !.handed = Append(@, Read(wr, Head(wr.queue)))]
    /\ HandOver(Head(wr.queue))
    /\ UNCHANGED <<mu, pc, loc, cfg, otherSize, now, calls, externals, faulty, ticked>>

\* The goroutines that receive from w.queue.
Consumers == {"watcher", "sync"}

AtSelect(c) ==
    /\ wr.held[c] = NoMsg
    /\ IF c = "watcher" THEN wr.watcher = "running" ELSE wr.sync = "running"

\* case msg := <-w.queue, in watcher or in Sync.
Receive(c) ==
    /\ Alive
    /\ AtSelect(c)
    /\ wr.queue # <<>>
    /\ wr' = [wr EXCEPT !.queue = Tail(@), !.held[c] = Head(wr.queue)]
    /\ last' = Did("Receive", 0, 0, FALSE, <<>>)
    /\ UNCHANGED <<mu, pc, loc, cfg, file, size, INode, millCh, millStarted, fs, fds, nextIno,
                   otherSize, now, calls, externals, faulty, ticked, journal, rotated>>

\* w.writer.Write(msg) after the receive, in watcher or in Sync.
Hand(c) ==
    /\ Alive
    /\ wr.held[c] # NoMsg
    /\ wr' = [wr EXCEPT !.held[c] = NoMsg, !.handed = Append(@, Read(wr, wr.held[c]))]
    /\ HandOver(wr.held[c])
    /\ UNCHANGED <<mu, pc, loc, cfg, otherSize, now, calls, externals, faulty, ticked>>

\* asyncWriter.Sync is called.
SyncCall ==
    /\ Alive
    /\ wr.sync = "idle"
    /\ wr' = [wr EXCEPT !.sync = "running"]
    /\ last' = Did("Sync", 0, 0, FALSE, <<>>)
    /\ UNCHANGED <<mu, pc, loc, cfg, file, size, INode, millCh, millStarted, fs, fds, nextIno,
                   otherSize, now, calls, externals, faulty, ticked, journal, rotated>>

\* Sync, case <-timer.C: return nil.
SyncReturn ==
    /\ Alive
    /\ AtSelect("sync")
    /\ wr' = [wr EXCEPT !.sync = "idle"]
    /\ last' = Did("SyncReturn", 0, 0, FALSE, <<>>)
    /\ UNCHANGED <<mu, pc, loc, cfg, file, size, INode, millCh, millStarted, fs, fds, nextIno,
                   otherSize, now, calls, externals, faulty, ticked, journal, rotated>>

\* fileScanner, case <-ticker.C.
ScanTick ==
    /\ Alive
    /\ wr.scanner = "running"
    /\ ScannerTick

\* fileScanner, case <-quit: return.
ScannerQuit ==
    /\ Alive
    /\ wr.scanner = "running"
    /\ wr.closeChan = "closed"
    /\ wr' = [wr EXCEPT !.scanner = "stopped"]
    /\ last' = Did("ScannerQuit", 0, 0, FALSE, <<>>)
    /\ UNCHANGED <<mu, pc, loc, cfg, file, size, INode, millCh, millStarted, fs, fds, nextIno,
                   otherSize, now, calls, externals, faulty, ticked, journal, rotated>>

\* watcher, case <-w.quit: return.
WatcherQuit ==
    /\ Alive
    /\ wr.watcher = "running"
    /\ wr.held.watcher = NoMsg
    /\ wr.quit = "closed"
    /\ wr' = [wr EXCEPT !.watcher = "stopped"]
    /\ last' = Did("WatcherQuit", 0, 0, FALSE, <<>>)
    /\ UNCHANGED <<mu, pc, loc, cfg, file, size, INode, millCh, millStarted, fs, fds, nextIno,
                   otherSize, now, calls, externals, faulty, ticked, journal, rotated>>

TimePasses == Alive /\ Advance

InitClose ==
    \E kind \in Kinds : \E dir \in {<<>>, (Filename :> OldFile(1, 1, 0))} :
        /\ wr = NewWriter(kind)
        /\ InitWriter(IF kind = "NewAsyncWriter"
                      THEN Config(3, 0, 0, 0, FALSE, FALSE, FALSE)
                      ELSE NewRotateWriter(Config(3, 0, 1, 0, FALSE, FALSE, FALSE)),
                      dir, TRUE)

NextClose ==
    \/ WriterClose
    \/ DirectWrite
    \/ AsyncWrite
    \/ Pump
    \/ ScanTick
    \/ ScannerQuit
    \/ WatcherQuit
    \/ TimePasses

SpecClose == InitClose /\ [][NextClose]_vars

\* The goroutines are scheduled fairly: a select whose quit channel is closed
\* takes that case in the end.
FairClose == SpecClose /\ WF_vars(ScannerQuit) /\ WF_vars(WatcherQuit)

\* The async writer at work: callers write, the watcher and calls of Sync
\* receive and write line by line, with the queue size configured or left 0.
InitAsync ==
    \E kind \in {"NewAsyncWriter", "NewAsyncRotateWriter"}, configured \in {MaxQueue, 0} :
        /\ wr = [NewWriter(kind) EXCEPT !.maxQueueSize = configured, !.cap = queueSize(configured)]
        /\ InitWriter(IF kind = "NewAsyncWriter"
                      THEN Config(3, 0, 0, 0, FALSE, FALSE, FALSE)
                      ELSE NewRotateWriter(Config(3, 0, 1, 0, FALSE, FALSE, FALSE)),
                      <<>>, TRUE)

NextAsync ==
    \/ AsyncWrite
    \/ \E c \in Consumers : Receive(c)
    \/ \E c \in Consumers : Hand(c)
    \/ SyncCall
    \/ SyncReturn
    \/ WriterClose
    \/ WatcherQuit

SpecAsync == InitAsync /\ [][NextAsync]_vars

(***************************************************************************)
(* Properties.                                                             *)
(***************************************************************************)
\* The size of the file a Write finds: the counter when the handle is open,
\* else the size of the file on disk (0 when there is none).
FoundSize == IF file # 0 THEN size ELSE IF DiskSize < 0 THEN 0 ELSE DiskSize

\* C1: a Write longer than the effective maximum (MaxSize x megabyte, or
\* 1024 x megabyte when MaxSize is 0) returns 0 and an error and changes
\* nothing: no system call is made, the directory, the handle, the size
\* counter and the descriptors stay as they were, nothing is rotated and the
\* mill is not signalled.
C1_OversizeWriteChangesNothing ==
    [][(last'.op = "Write" /\ last'.len > max)
         => /\ last'.n = 0
            /\ last'.err
            /\ last'.ev = <<>>
            /\ UNCHANGED <<file, size, INode, fs, fds, nextIno, millCh, millStarted,
                           journal, rotated>>]_vars

\* C1 witness: with MaxSize 0 and the handle open, a Write of one byte more
\* than 1024 x megabyte was rejected.
C1_Witness ==
    /\ last.op = "Write"
    /\ cfg.MaxSize = 0
    /\ last.len = defaultMaxSize * megabyte + 1
    /\ last.err
    /\ last.preFile # 0
    /\ file # 0

\* C2: after a Write of at most the maximum that succeeds, the size of the
\* active file (the counter, and the file on disk) is the size found plus
\* the length written when the call opened no new file, and the length
\* written when it did (a rotation).
C2_SizeAfterWrite ==
    [][(last'.op = "Write" /\ last'.len <= max /\ ~last'.err)
         => /\ size' = (IF Has(last'.ev, "create") THEN last'.len ELSE FoundSize + last'.len)
            /\ DiskSize' = size']_vars

\* C2 witness: a Write on an open handle holding bytes rotated the file and
\* left the new file with its own bytes only.
C2_Witness ==
    /\ last.op = "Write"
    /\ ~last.err
    /\ last.preFile # 0
    /\ last.preSize > 0
    /\ Has(last.ev, "rename")
    /\ size = last.len

\* C4: a Write of at most the maximum that succeeds rotates the file before
\* appending exactly when the size found plus the length written exceeds the
\* maximum, whether the handle was open or the call opened an existing file.
C4_RotatesIffExceeds ==
    [][(last'.op = "Write" /\ last'.len <= max /\ ~last'.err
          /\ (file # 0 \/ DiskSize >= 0))
         => (Has(last'.ev, "rotate") <=> FoundSize + last'.len > max)]_vars

\* The backups of the directory: every file but the active one.
Backups == DOMAIN fs \ {Filename}

\* The content of the files named, one after the other.
RECURSIVE Contents(_)
Contents(names) ==
    IF names = <<>> THEN <<>>
    ELSE IF Len(names) = 1
    THEN (IF names[1] \in DOMAIN fs THEN fs[names[1]].data ELSE <<>>)
    ELSE Contents(SubSeq(names, 1, Len(names) \div 2))
         \o Contents(SubSeq(names, Len(names) \div 2 + 1, Len(names)))

ActiveData == IF Filename \in DOMAIN fs THEN fs[Filename].data ELSE <<>>

\* C3: without limits on the backups and without external changes, the
\* content of the backups in the order they were rotated, followed by the
\* content of the active file, is the buffers written, in call order.
C3_ContentsInCallOrder ==
    (cfg.MaxBackups = 0 /\ cfg.MaxAge = 0 /\ cfg.MaxBackupSize = 0 /\ ~cfg.Compress
     /\ externals = 0)
        => Contents(rotated) \o ActiveData = journal

\* C7: after N successful Rotate calls in a row on a writer without limits
\* on the backups, whose directory held no backup and whose active file
\* existed at the first call, there are exactly N backups, each with a name
\* timeFromName can parse, and the active file exists and is empty.
C7_NRotationsNBackups ==
    (last.op = "Rotate" /\ ~last.err)
        => /\ Cardinality(Backups) = calls - Len(journal)
           /\ \A n \in Backups : BackupTime(n).ok
           /\ DiskSize = 0

\* C8: every rotation renames the active file to a name that did not exist
\* just before the rename.
C8_RenameNeverOverwrites ==
    \A i \in 1..Len(last.ev) : last.ev[i].e = "rename" => last.ev[i].flag

\* The name C9 says a rotation chooses in directory fsys, the suffix being
\* joined to the first candidate by sep.
ChosenName(fsys, sep) ==
    LET free == {n \in 1..(backupIdxLimit - 2) : (backupStem \o sep \o Itoa(n)) \notin DOMAIN fsys}
    IN  IF backupStem \notin DOMAIN fsys THEN backupStem
        ELSE IF free = {} THEN backupStem \o sep \o Itoa(backupIdxLimit - 1)
        ELSE backupStem \o sep \o Itoa(CHOOSE n \in free : \A m \in free : n <= m)

RenamesChoose(sep) ==
    \A i \in 1..Len(last'.ev) :
        last'.ev[i].e = "rename"
            => /\ last'.ev[i].name = ChosenName(fs, sep)
               /\ last'.ev[i].num <= backupIdxLimit - 1
               /\ ~last'.ev[i].flag => last'.ev[i].num = backupIdxLimit - 1

BackupsOf(fsys) == {n \in DOMAIN fsys : BackupTime(n).ok}

\* The file n of directory fsys as the mill lists it.
InfoOf(fsys, n) == [name |-> n, timestamp |-> BackupTime(n).hour,
                    size |-> FileSize(fsys[n]), mtime |-> fsys[n].mtime]

\* a is more recent than b: by the time in the name, then by the time of
\* modification, then by the name, all descending.
MoreRecent(a, b) ==
    \/ a.timestamp > b.timestamp
    \/ a.timestamp = b.timestamp /\ a.mtime > b.mtime
    \/ a.timestamp = b.timestamp /\ a.mtime = b.mtime /\ StrLess(b.name, a.name)

\* The names the round of the mill just taken removed from the directory.
RemovedBy(ev) == {ev[i].name : i \in {j \in 1..Len(ev) : ev[j].e = "remove"}}

Quiet == \A t \in Threads : ~InBody(t)

\* C5: every public operation (Write, Rotate, Close, OpenExistingOrNew) holds
\* the mutex for its whole body, so under any interleaving of the callers and
\* the scanner no two threads are inside such a body at the same time.
C5_OperationsExcludeEachOther ==
    \A t1, t2 \in Threads : InBody(t1) /\ InBody(t2) => t1 = t2

\* C6: whenever a handle is open and no operation is in progress, the size
\* counter is the size adopted when the handle was opened (0 for a new or
\* truncated file) plus the bytes written through that handle since, under
\* every interleaving of Write, Rotate, Close and scanner ticks.
C6_SizeIsAdoptedPlusWritten ==
    file # 0 /\ Quiet => size = fds[file].adopted + fds[file].through

\* The age of backup n at the clock of the state, in instants, by the time
\* in its name.
Age(n) == (StartHour * 3 + now) - 3 * BackupTime(n).hour

\* No policy but MaxAge takes a file in this round.
OnlyAgeRemoves ==
    /\ cfg.MaxBackups = 0 \/ Cardinality(BackupsOf(fs)) <= cfg.MaxBackups
    /\ cfg.MaxBackupSize = 0 \/ dirsize(fs) < maxBackupSize

\* C11: with MaxAge = d > 0, a round of the mill run at time now removes
\* every backup whose name time is before now minus d x 24 hours, and keeps
\* (plain or compressed) the backup whose name time is that cutoff exactly,
\* when neither MaxBackups nor MaxBackupSize takes a file.
C11_RemovesOlderKeepsCutoff ==
    [][(last'.op = "Mill" /\ cfg.MaxAge > 0 /\ Has(last'.ev, "pass"))
         => \A n \in BackupsOf(fs) :
              /\ Age(n) > 72 * cfg.MaxAge => n \notin DOMAIN fs'
              /\ (Age(n) = 72 * cfg.MaxAge /\ OnlyAgeRemoves)
                    => \/ n \in DOMAIN fs'
                       \/ cfg.Compress /\ (n \o compressSuffix) \in DOMAIN fs']_vars

\* C11 witness: a round at the first instant of an hour removed the backup
\* one hour older than MaxAge days and left the one exactly MaxAge days old.
C11_Witness ==
    /\ last.op = "Mill"
    /\ cfg.MaxAge > 0
    /\ now = 0
    /\ \E x \in RemovedBy(last.ev) : BackupTime(x).hour = StartHour - AgeHours(cfg) - 1
    /\ \E n \in BackupsOf(fs) : Age(n) = 72 * cfg.MaxAge

\* C12: when MaxBackups and MaxAge are both 0, no round of the mill deletes
\* a backup, whatever MaxBackupSize, Compress and LocalTime are: every backup
\* the round finds is there afterwards, as it was or compressed.
C12_NoLimitsNoDeletion ==
    [][(last'.op = "Mill" /\ cfg.MaxBackups = 0 /\ cfg.MaxAge = 0)
         => \A n \in BackupsOf(fs) :
              \/ n \in DOMAIN fs'
              \/ (n \o compressSuffix) \in DOMAIN fs']_vars

\* The signals a call raised, in order: TRUE for a signal sent, FALSE for a
\* signal dropped.
Signals(ev) ==
    LET IsSignal(x) == x.e = "signal"
    IN  [i \in 1..Len(SelectSeq(ev, IsSignal)) |-> SelectSeq(ev, IsSignal)[i].flag]

\* The millRun goroutines a call started.
Started(ev) ==
    LET IsStart(x) == x.e = "startMill"
    IN  Len(SelectSeq(ev, IsStart))

\* C13: the channel never holds more than one signal; a call that raises
\* the signal returns in the same step with exactly one signal pending: the
\* signal is sent when none is pending and dropped when one is; the millRun
\* goroutine is started by the first call that raises the signal and never
\* again; and after the last signal raised, however many rotations raised
\* one while a round was running, at most one more round begins.
C13_SignalCoalesces ==
    /\ [](millCh \in {0, 1} /\ last.since <= 1)
    /\ [][/\ \A i \in 1..Len(Signals(last'.ev)) :
               Signals(last'.ev)[i] <=> (i = 1 /\ millCh = 0)
          /\ Signals(last'.ev) # <<>> => millCh' = 1 /\ last'.op \in {"Write", "Rotate"}
          /\ Started(last'.ev) = (IF ~millStarted /\ Signals(last'.ev) # <<>> THEN 1 ELSE 0)
          /\ millStarted => millStarted']_vars

\* C13 witness: while a round is running, a rotation has sent a signal and
\* the rotation after it, finding that signal pending, has dropped its own
\* and returned.
C13_Witness ==
    /\ pc["m"] = "run"
    /\ last.op = "Rotate"
    /\ ~last.err
    /\ Signals(last.ev) = <<FALSE>>
    /\ millCh = 1

\* The call just returned rotated the file: it moved the active file aside
\* (or found none) and created the new one.
RotationDone ==
    /\ last.op \in {"Write", "Rotate"}
    /\ Has(last.ev, "rotate")
    /\ Has(last.ev, "create")

\* C14: with the millRun goroutine scheduled fairly, every rotation that
\* succeeded is followed by a round of the mill that begins after the
\* rotation has returned, also when the rotation dropped its signal; and a
\* Write or Rotate called while a round is running returns while the round
\* is still running.
C14_RotationWakesMill ==
    /\ RotationDone ~> (last.op = "Take")
    /\ [][(last'.op \in {"Write", "Rotate"} /\ pc["m"] = "run") => pc'["m"] = "run"]_vars

\* C14 witness: a round begins after two rotations of which the second
\* dropped its signal have left their backups in the directory.
C14_Witness ==
    /\ last.op = "Take"
    /\ Len(rotated) >= 2
    /\ \A i \in 1..Len(rotated) : rotated[i] \in DOMAIN fs
    /\ calls = 2

\* C15: however many times Close is called on the Writer made by
\* NewRotateWriter, NewAsyncWriter or NewAsyncRotateWriter, no call panics,
\* and after the first call the teardown channels of fileScanner and of
\* watcher are closed.
C15_CloseNeverPanics ==
    /\ ~wr.panicked
    /\ wr.closes > 0 => wr.closeChan # "open" /\ wr.quit # "open"

\* C16: Close leaves the writer without a handle; the handle it found open
\* is closed; and a Close that finds no handle, as a second Close in a row
\* does, returns nil, makes no system call and changes nothing.
C16_CloseIsIdempotent ==
    [][last'.op = "Close"
         => /\ file' = 0
            /\ file # 0 => ~fds'[file].open /\ Has(last'.ev, "close")
            /\ file = 0 => /\ ~last'.err
                           /\ last'.ev = <<>>
                           /\ UNCHANGED <<size, INode, fs, fds, nextIno, millCh,
                                          millStarted, journal, rotated>>]_vars

\* C16 witness: no system call has failed, the first call (a Write) opened
\* the only handle there has been, the second (a Close) closed it, and the
\* third, a Close again, found no handle.
C16_Witness ==
    /\ last.op = "Close"
    /\ last.preFile = 0
    /\ calls = 3
    /\ ~faulty
    /\ Len(fds) = 1
    /\ ~fds[1].open

\* What reading a file through gzip.NewReader gives: the chunks between the
\* header and a trailer that holds their length, and an error for anything
\* else.
gunzip(z) ==
    IF /\ Len(z) >= 2
       /\ z[1] = <<-1, 0>>
       /\ \A k \in 2..(Len(z) - 1) : IsChunk(z[k])
       /\ z[Len(z)] = <<-2, SumLen(SubSeq(z, 2, Len(z) - 1))>>
    THEN [ok |-> TRUE, data |-> SubSeq(z, 2, Len(z) - 1)]
    ELSE [ok |-> FALSE, data |-> <<>>]

\* The backups a pass has compressed.
CompressedBy(ev) == {ev[i].name : i \in {k \in 1..Len(ev) : ev[k].e = "compress"}}

\* C17: after a pass has compressed a backup, <name>.gz exists and
\* decompresses to exactly the bytes the backup held before the pass, and the
\* uncompressed backup is gone.
C17_CompressRoundTrip ==
    [][\A src \in CompressedBy(last'.ev) :
          /\ src \in DOMAIN fs
          /\ (src \o compressSuffix) \in DOMAIN fs'
          /\ gunzip(fs'[src \o compressSuffix].data) = [ok |-> TRUE, data |-> fs[src].data]
          /\ src \notin DOMAIN fs']_vars

C17_Witness ==
    /\ last.op = "Mill"
    /\ \E src \in CompressedBy(last.ev) :
          /\ src \notin DOMAIN fs
          /\ gunzip(fs[src \o compressSuffix].data).ok
          /\ SumLen(gunzip(fs[src \o compressSuffix].data).data) > 0

\* The backups a pass has failed to compress.
FailedBy(ev) == {ev[i].name : i \in {k \in 1..Len(ev) : ev[k].e = "compressFailed"}}

FailuresAfter(ev, i) == {j \in (i + 1)..Len(ev) : ev[j].e \in {"mkdir", "renameFailed"}}

\* C19: when the making of the directory or the renaming of the active file
\* fails in a rotation, by Rotate or by Write, the call returns the error, the
\* step is tried once and nothing follows it, a Write returns 0 bytes, the
\* directory is as it was (the active file at its path with its bytes, no new
\* file) and the rotation sends no signal to the mill.
C19_FailedRotationLeavesFile ==
    [][\A i \in 1..Len(last'.ev) :
          (last'.ev[i].e = "rotate" /\ FailuresAfter(last'.ev, i) # {})
            => /\ last'.op \in {"Write", "Rotate"} /\ last'.err /\ last'.n = 0
               /\ Cardinality(FailuresAfter(last'.ev, i)) = 1
               /\ FailuresAfter(last'.ev, i) = {Len(last'.ev)}
               /\ \A k \in (i + 1)..(Len(last'.ev) - 1) : last'.ev[k].e = "close"
               /\ fs' = fs
               /\ nextIno' = nextIno]_vars

C19_Witness ==
    /\ last.op = "Write" /\ last.err /\ last.n = 0
    /\ Has(last.ev, "rotate") /\ Has(last.ev, "close")
    /\ last.ev[Len(last.ev)].e = "renameFailed"
    /\ Filename \in DOMAIN fs /\ SumLen(fs[Filename].data) > 0

\* The instance holds an open handle on the file at the path, and its size
\* and identity token are those of that file.
HoldsActive ==
    /\ Filename \in DOMAIN fs
    /\ file # 0 /\ fds[file].open /\ fds[file].ino = fs[Filename].ino
    /\ size = FileSize(fs[Filename])
    /\ INode = fs[Filename].ino

\* HoldsActive of a file that is new and empty.
HoldsNewEmpty == HoldsActive /\ fs[Filename].data = <<>> /\ size = 0

\* The call changed neither the instance nor the directory.
NothingChanged ==
    /\ file' = file /\ size' = size /\ INode' = INode
    /\ fs' = fs /\ fds' = fds

\* C20: OpenExistingOrNew ends in one of three ways.  When the stat fails for
\* a reason other than absence it returns an error and changes nothing.  When
\* the path is absent it creates a new empty file and holds it with size 0
\* (or returns the error of the creation, nothing changed).  When the path
\* exists it opens the file for appending and adopts its size and identity
\* with the directory unchanged, but an open that fails is not returned: the
\* existing file is moved aside and a new empty file is created and held.
C20_OpenExistingOrNewOutcomes ==
    [][last'.op = "OpenExistingOrNew"
         => IF Has(last'.ev, "statFailed")
            THEN last'.err /\ NothingChanged
            ELSE IF Filename \notin DOMAIN fs
            THEN IF last'.err
                 THEN NothingChanged /\ ~Has(last'.ev, "openFailed")
                 ELSE HoldsNewEmpty' /\ DOMAIN fs' = {Filename} \cup DOMAIN fs
            ELSE IF Has(last'.ev, "openFailed")
            THEN /\ ~last'.err
                 /\ HoldsNewEmpty'
                 /\ fs'[Filename].ino # fs[Filename].ino
                 /\ \E nm \in DOMAIN fs' \ DOMAIN fs : fs'[nm] = fs[Filename]
            ELSE /\ ~last'.err
                 /\ HoldsActive'
                 /\ fs' = fs
                 /\ fds'[file'].adopted = FileSize(fs[Filename])]_vars

C20_Witness ==
    /\ last.op = "OpenExistingOrNew" /\ ~last.err
    /\ Has(last.ev, "openFailed") /\ Has(last.ev, "rename") /\ Has(last.ev, "create")
    /\ HoldsNewEmpty
    /\ \E nm \in DOMAIN fs \ {Filename} : SumLen(fs[nm].data) > 0

\* The names a step added to the directory.
NewNames == DOMAIN fs' \ DOMAIN fs

\* The step in which the scanner, having found no file at the active path,
\* has the writer act: the whole tick, or, the tick taken line by line, the
\* body of the Rotate it calls.
ActsOnMissing ==
    \/ last'.op = "Tick" /\ Filename \notin DOMAIN fs
    \/ pc["s"] = "body" /\ pc'["s"] = "idle" /\ ~loc["s"].exists

\* C21: a tick that finds no file at the active path makes the writer open a
\* new one: afterwards the path holds an empty file, the size counter is 0,
\* the handle is on the new file, and no backup came into being.
C21_MissingFileIsOpenedNew ==
    [][ActsOnMissing
         => /\ HoldsNewEmpty'
            /\ NewNames = {Filename}
            /\ DOMAIN fs \subseteq DOMAIN fs'
            /\ ~Has(last'.ev, "rename")]_vars

C21_Witness ==
    /\ last.op = "Tick" /\ Has(last.ev, "scanMissing") /\ Has(last.ev, "close")
    /\ HoldsNewEmpty
    /\ last.preSize > 0

\* The number of events e in ev.
CountOf(ev, e) == Cardinality({i \in 1..Len(ev) : ev[i].e = e})

\* The clock shows minute 0, second 0.
OnTheHour == MinuteOf(now) = 0 /\ SecondOf(now) = 0

\* The name of a backup of the hour that ended when the clock struck, in the
\* local time a writer of NewRotateWriter uses.
EndedHourName == Filename \o <<".">> \o FormatHour(HourOf(now) + ZoneOffset - 1)

ReopenEnds ==
    \/ last'.op = "Tick" /\ Has(last'.ev, "scanChanged")
    \/ pc["s"] \in {"open", "openFile", "openINode"} /\ pc'["s"] = "idle"

\* C23: when the scanner has reopened a file it found with another identity,
\* the file was neither renamed nor truncated, no backup was made, and the
\* writer holds the file at the path: its handle is on it, its size counter
\* is the size of the file on disk and its identity token is the file's.
C23_ReplacedFileIsAdopted ==
    [][ReopenEnds
         => /\ fs' = fs
            /\ ~Has(last'.ev, "rename") /\ ~Has(last'.ev, "create")
            /\ HoldsActive']_vars

\* C24: once Close was called on a writer with a file scanner, the scanner
\* loop ends (it returns, or the process has ended), and a scanner that has
\* returned stays so and makes no tick, hence no rotation and no reopening.
C24_ScannerStopsAfterClose ==
    /\ (wr.closes > 0 /\ wr.scanner # "none") ~> (wr.scanner = "stopped" \/ wr.panicked)
    /\ [][wr.scanner = "stopped"
            => /\ wr'.scanner = "stopped"
               /\ last'.op # "Tick"
               /\ <<file, size, INode>>' # <<file, size, INode>> => last'.op = "Write"]_vars

C24_Witness ==
    /\ wr.closes = 1 /\ ~wr.panicked
    /\ wr.scanner = "stopped" /\ wr.closeChan = "closed"
    /\ last.op = "Write" /\ now > 0

\* The handles the instance has opened and not closed.
OpenHandles == {i \in 1..Len(fds) : fds[i].open}

\* C25: a handle is installed only after the one held before was closed: the
\* only handle of the instance that is open is the one in l.file.
C25_AtMostOneOpenHandle == OpenHandles \subseteq {file}

\* The bytes a backup file stands for: its own, or those its complete gzip
\* stream decompresses to.
ContentOf(f) == IF f.gz THEN gunzip(f.data) ELSE [ok |-> TRUE, data |-> f.data]

\* After the step the content of backup n is still on disk, under its name
\* or as a complete <name>.gz.
KeptByStep(n) ==
    \E m \in {n, n \o compressSuffix} \cap DOMAIN fs' :
        ContentOf(fs'[m]) = ContentOf(fs[n])

\* C26: the content of a backup stays on disk, plain or as a complete .gz,
\* through every step that does not remove the backup for a retention
\* policy: no rename and no compression overwrites it.
C26_BackupContentStays ==
    [][\A n \in DOMAIN fs \ {Filename} :
          ContentOf(fs[n]).ok => KeptByStep(n) \/ n \in RemovedBy(last'.ev)]_vars

\* What the file with identity i held before the step (nothing when there
\* was no such file).
PriorData(i) ==
    IF \E n \in DOMAIN fs : fs[n].ino = i
    THEN fs[CHOOSE n \in DOMAIN fs : fs[n].ino = i].data
    ELSE <<>>

\* The places on disk that hold bytes of the Write with number id.
PlacesOf(id) ==
    {<<n, i>> \in (DOMAIN fs) \X (1..(MaxCalls + 1)) :
        i <= Len(fs[n].data) /\ fs[n].data[i][1] = id}

\* Caller t is in the step of a Write that writes all its bytes without error.
WritesAll(t) ==
    /\ pc[t] = "body" /\ loc[t].op = "Write"
    /\ pc'[t] = "add" /\ loc'[t].n = loc[t].len

C28_NoSpuriousReopen ==
    externals = 0 => pc["s"] # "open" /\ ~(last.op = "Tick" /\ Has(last.ev, "scanChanged"))

\* The place of message id in the order in which Write accepted messages.
AcceptedAt(id) == CHOOSE i \in DOMAIN wr.accepted : wr.accepted[i].id = id

\* C29: the messages asyncWriter.Write accepted are given to the underlying
\* writer in the order in which they were accepted, whatever the watcher and
\* calls of Sync do in between.
C29_HandedInAcceptedOrder ==
    \A i, j \in DOMAIN wr.handed :
        i < j => AcceptedAt(wr.handed[i].id) < AcceptedAt(wr.handed[j].id)

\* The configured MaxQueueSize, 100000 when it is unset.
QueueLimit == IF wr.maxQueueSize = 0 THEN 100000 ELSE wr.maxQueueSize

\* A caller can call asyncWriter.Write.
CanWrite == Alive /\ wr.kind \in {"NewAsyncWriter", "NewAsyncRotateWriter"} /\ calls < MaxCalls

\* The message Write makes of the caller's buffer in the step taken.
Taken == [id |-> calls', data |-> wr'.buf, shared |-> FALSE]

\* C30: asyncWriter.Write never waits, whatever the queue holds and wherever
\* the watcher and Sync are; with room in the queue it appends a copy of the
\* buffer and returns (len(b), nil), with a full queue it leaves the queue as
\* it is and returns (0, nil); what a receiver reads in a message is what the
\* buffer held when Write took it, whatever the caller put in the buffer
\* since; and the queue never holds more than the configured MaxQueueSize,
\* 100000 when unset.
C30_WriteNeverBlocks ==
    /\ [](CanWrite => ENABLED AsyncWrite)
    /\ [](Len(wr.queue) <= QueueLimit)
    /\ [](\A i \in DOMAIN wr.handed : wr.handed[i] = wr.accepted[AcceptedAt(wr.handed[i].id)])
    /\ [][last'.op = "AsyncWrite" =>
            /\ ~last'.err
            /\ wr'.accepted = IF last'.n = 0 THEN wr.accepted ELSE Append(wr.accepted, Read(wr', Taken))
            /\ IF Len(wr.queue) < QueueLimit
               THEN wr'.queue = Append(wr.queue, Taken) /\ last'.n = last'.len
               ELSE wr'.queue = wr.queue /\ last'.n = 0]_vars

\* A Write found the queue full and dropped its message, and the queue holds
\* a message taken before the caller filled its buffer anew.
C30_Witness ==
    /\ last.op = "AsyncWrite"
    /\ last.n = 0
    /\ Len(wr.queue) = QueueLimit
    /\ \E i \in DOMAIN wr.queue : Read(wr, wr.queue[i]).data # wr.buf

\* C31: when Close of the Writer of NewRotateWriter or NewAsyncRotateWriter
\* returns, the RotateWriter behind it holds no open file handle.
C31_CloseReleasesHandle ==
    [][(last'.op = "WriterClose" /\ ~wr'.panicked /\ wr.kind \in {"NewRotateWriter", "NewAsyncRotateWriter"})
         => (OpenHandles' = {} /\ file' = 0)]_vars

\* The hour the timestamp of backup name n reads as, in the zone of the name.
StampHour(n) == ParseHour(SubSeq(n, Len(Filename) + 2, Len(Filename) + 1 + Len(backupTimeFormat))).hour

\* The name n is one of those of hour h: the file name, a dot and the
\* timestamp of h, with or without a number behind it.
NamedAfter(n, h) == HasPrefix(n, Filename \o <<".">> \o FormatHour(h))

NamesOf(infos) == {infos[i].name : i \in 1..Len(infos)}

\* The bytes of the files named in names, in directory fsys.
BytesOf(fsys, names) == SumDir(fsys, names)

\* What the count and the age policy leave of the backups in the directory,
\* and what they have marked.
BeforeSize == agePolicy(countPolicy(oldLogFiles(fs)))

\* The size of the directory with the files marked so far taken off.
Projected == dirsize(fs) - SumSizes(BeforeSize.remove)

\* The files the pass just taken removed on account of the size policy, and
\* the files the three policies left.
TakenBySize == RemovedBy(last'.ev) \ NamesOf(BeforeSize.remove)
LeftBySize  == NamesOf(BeforeSize.files) \ RemovedBy(last'.ev)

LogicalBackups(fsys) == {LogicalName(n) : n \in BackupsOf(fsys)}

\* The files of logical backup l in directory fsys.
FilesOf(fsys, l) == {n \in BackupsOf(fsys) : LogicalName(n) = l}

\* Logical backup a comes before logical backup b in the order of the
\* listing: a has a file that is more recent than every file of b.
Before(fsys, a, b) ==
    \E x \in FilesOf(fsys, a) : \A y \in FilesOf(fsys, b) : MoreRecent(InfoOf(fsys, x), InfoOf(fsys, y))

\* The k newest logical backups of directory fsys.
Newest(fsys, k) ==
    {l \in LogicalBackups(fsys) :
        Cardinality({m \in LogicalBackups(fsys) : m # l /\ Before(fsys, m, l)}) < k}

\* No policy but MaxBackups is set.
OnlyCount == cfg.MaxBackups > 0 /\ cfg.MaxAge = 0 /\ cfg.MaxBackupSize = 0

\* C34: a pass with MaxBackups = k counts a compressed backup and the plain
\* file of the same name as one: the logical backups that have a file after
\* the pass are the k newest, and every file of each of them is still there
\* (as it was, or compressed).
C34_PairCountsOnce ==
    [][(last'.op = "Mill" /\ Has(last'.ev, "pass") /\ OnlyCount)
         => /\ LogicalBackups(fs') = Newest(fs, cfg.MaxBackups)
            /\ \A l \in Newest(fs, cfg.MaxBackups) : \A n \in FilesOf(fs, l) :
                   \/ n \in DOMAIN fs'
                   \/ cfg.Compress /\ (n \o compressSuffix) \in DOMAIN fs']_vars

\* C35: a pass with MaxAge = d > 0 in which no removal fails leaves no
\* backup whose name is older than d days, whatever MaxBackups and
\* MaxBackupSize are and however few backups there are (a pass that could
\* not list the directory set aside).
C35_AgeAppliesAlone ==
    [][(last'.op = "Mill" /\ cfg.MaxAge > 0
          /\ ~Has(last'.ev, "removeFailed") /\ ~Has(last'.ev, "readdirFailed"))
         => \A n \in BackupsOf(fs) : Age(n) > 72 * cfg.MaxAge => n \notin DOMAIN fs']_vars

\* The names a pass tried to remove, and the names it tried to compress.
TriedRemove(ev)   == {ev[i].name : i \in {j \in 1..Len(ev) : ev[j].e \in {"remove", "removeFailed"}}}
TriedCompress(ev) == {ev[i].name : i \in {j \in 1..Len(ev) : ev[j].e \in {"compress", "compressFailed"}}}

\* What the three policies mark in the directory, and what they leave.
AfterSize == sizePolicy(BeforeSize, fs)

\* C36: a pass that has listed the directory tries to remove every file it
\* marked for removal and to compress every file it marked for compression,
\* whether or not one of them fails, all removals before the first
\* compression, and its error reaches no caller.
C36_PassIsBestEffort ==
    [][(last'.op = "Mill" /\ ~Has(last'.ev, "readdirFailed"))
         => /\ NamesOf(BeforeSize.remove) \subseteq TriedRemove(last'.ev)
            /\ Has(last'.ev, "pass") =>
                   /\ TriedRemove(last'.ev) = NamesOf(AfterSize.remove)
                   /\ TriedCompress(last'.ev) = NamesOf(compressList(AfterSize.files))
            /\ \A i, j \in 1..Len(last'.ev) :
                   (i < j /\ last'.ev[i].e \in {"compress", "compressFailed"})
                       => last'.ev[j].e \notin {"remove", "removeFailed"}
            /\ ~last'.err]_vars

\* The names a pass tried to remove or to compress, and the names whose
\* file is not the same after the step as before it.
Touched(ev) == TriedRemove(ev) \cup TriedCompress(ev)
Changed(f, g) ==
    {n \in DOMAIN f \cup DOMAIN g : n \notin DOMAIN f \/ n \notin DOMAIN g \/ f[n] # g[n]}

\* The name is the file name, a dot, a timestamp that names an hour, and
\* `.gz` or nothing.
Timestamped(n) ==
    /\ HasPrefix(n, Filename \o <<".">>)
    /\ ParseHour(TrimSuffix(SubSeq(n, Len(Filename) + 2, Len(n)), compressSuffix)).ok

\* The name begins with the file name and goes on, after a dot or none, with
\* ten characters that name an hour.
Stamped(n) ==
    /\ HasPrefix(n, Filename)
    /\ LET r == TrimPrefix(SubSeq(n, Len(Filename) + 1, Len(n)), <<".">>)
       IN  Len(r) >= Len(backupTimeFormat) /\ ParseHour(SubSeq(r, 1, Len(backupTimeFormat))).ok

C38_SizeWithinMax ==
    [][/\ (last'.op = "Write" /\ ~last'.err) => size' <= max
       /\ \A t \in Callers :
              (pc[t] = "add" /\ pc'[t] = "idle" /\ loc[t].n > 0) => size' <= max]_vars

\* C39: no second RotateWriter and no second scanner is made for a path
\* that has one, and in an instant on the hour no scanner rotates the file
\* that another scanner has rotated in that instant.
C39_OneWriterPerPath ==
    [][/\ ~wr'.twin.made
       /\ (last'.op \in {"Tick", "TwinTick"} /\ OnTheHour /\ CountOf(last'.ev, "rotate") = 1)
             => ~(ticked' /\ wr'.twin.tickedAt = now)]_vars

\* How often a pass tried to remove the file n.
RemovalsOf(ev, n) ==
    Cardinality({i \in 1..Len(ev) : ev[i].e \in {"remove", "removeFailed"} /\ ev[i].name = n})

\* C40: a pass compresses only with the compress flag set, and only backups
\* it found in the directory whose name has no `.gz` suffix, which it has
\* not tried to remove and which are not older than MaxAge; it tries to
\* remove no file twice; and a compression that succeeds leaves the file
\* compressed in the place of the plain one.
C40_CompressesSurvivorsOnly ==
    [][last'.op = "Mill"
         => /\ \A n \in TriedCompress(last'.ev) :
                   /\ cfg.Compress
                   /\ n \in BackupsOf(fs)
                   /\ ~HasSuffix(n, compressSuffix)
                   /\ n \notin TriedRemove(last'.ev)
                   /\ cfg.MaxAge > 0 => Age(n) <= 72 * cfg.MaxAge
            /\ \A n \in TriedRemove(last'.ev) : RemovalsOf(last'.ev, n) = 1
            /\ \A n \in CompressedBy(last'.ev) :
                   n \notin DOMAIN fs' /\ (n \o compressSuffix) \in DOMAIN fs']_vars

\* C40 witness: a pass with the compress flag set has removed a backup,
\* compressed another and left a compressed one as it was.
C40_Witness ==
    /\ last.op = "Mill"
    /\ cfg.Compress
    /\ RemovedBy(last.ev) # {}
    /\ CompressedBy(last.ev) # {}
    /\ \E n \in DOMAIN fs : HasSuffix(n, compressSuffix) /\ fs[n].mtime < 0

====
